---- MODULE Spec2Model ----
(***************************************************************************)
(* Model of the display-slot resource pool of the SSH gateway              *)
(* (minecraft_terminal_viewer/src/queueing.rs) together with the part of   *)
(* the session driver (sshng.rs) that asks for, receives and releases a    *)
(* slot.                                                                   *)
(*                                                                         *)
(* The pool is one task running resource_queue_manager: a loop around a    *)
(* tokio::select! over two unbounded channels (requests, releases),        *)
(* followed by a broadcast of QueuePosition to every waiter.  A request    *)
(* carries a status sender, a cancel receiver (oneshot) and a response     *)
(* sender (oneshot) that the pool never uses: dropping the request drops   *)
(* the response sender, which wakes the helper task of request_resource.   *)
(***************************************************************************)
EXTENDS Naturals, Integers, Sequences, FiniteSets, TLC

\* Largest resource_count given to ResourcePool::new in the model.
MaxResourceCount == 2

\* Number of requests issued through request_resource in the model.
NumRequests == 4

VARIABLES
    resource_count,       \* argument of ResourcePool::new
    available_resources,  \* VecDeque<u32>: the free slots
    pending_requests,     \* VecDeque<ResourceRequest>: the waiters (request ids)
    request_rx,           \* unbounded channel of requests, in flight; each entry is
                          \* [id, releases_before]: the request id and (history)
                          \* the number of releases sent before the request was sent
    release_rx,           \* unbounded channel of released slot ids, in flight
    next_id,              \* AtomicUsize: the next request id
    cancel,               \* per request: has the cancel oneshot been fired
    response,             \* per request: "none" | "alive" | "dropped" | "done"
    status,               \* per request: the statuses sent into status_tx
    status_rx_open,       \* per request: the session still holds status_rx
    session,              \* per request: "none" | "waiting" | "running" | "released" | "ended"
    last_turn             \* history: the latest pool turn.  After a release turn:
                          \* the slot released and whether the wait set and the
                          \* free set were empty when it was processed.  After a
                          \* request turn: the request processed, whether the turn
                          \* before it was a release turn, and that turn's record.

poolVars == <<resource_count, available_resources, pending_requests, request_rx,
              release_rx, next_id, cancel, response, status, status_rx_open,
              session, last_turn>>

(***************************************************************************)
(* One session that was granted a slot: the stages started by              *)
(* minecraft::run (minecraft.rs 192-246).                                  *)
(***************************************************************************)
VARIABLES
    xorg_display,         \* MinecraftConfig.xorg_display: n stands for ":n"
    running               \* Arc<AtomicBool>: the session's running flag

sessVars == <<xorg_display, running>>

\* xdo::forward_input_to_minecraft and its event channel.
VARIABLES
    input_rx,             \* mpsc channel of InputEvent, in flight
    input_tx_open,        \* the input capture stage still holds input_event_tx
    events_sent,          \* number of InputEvents sent so far
    xdo_pc,               \* forward_input_to_minecraft: "idle" | "loop" | "done"
    pressed,              \* KeyState.pressed of each movement key
    release_in,           \* KeyState.release_time - now, in ticks, at least 0
    commands,             \* history: the run_xdotool invocations, in order
    inventory_open,       \* forward_input_to_minecraft: inventory_open
    last_mouse_x,         \* forward_input_to_minecraft: last_mouse_x
    last_mouse_y,         \* forward_input_to_minecraft: last_mouse_y
    mouse_events          \* history: number of Mouse events handled so far

mouseVars == <<inventory_open, last_mouse_x, last_mouse_y, mouse_events>>

xdoVars == <<input_rx, input_tx_open, events_sent, xdo_pc, pressed,
             release_in, commands, mouseVars>>

\* render::render_x11_window, its capture children and render threads, the
\* capacity-1 channel and display_render_thread.
VARIABLES
    target_width,         \* TerminalSize.target_width
    target_height,        \* TerminalSize.target_height
    drv_pc,               \* render_x11_window: "idle" | "loop" | "done" | "failed"
    last_width,           \* render_x11_window: last_width
    last_height,          \* render_x11_window: last_height
    current_process,      \* render_x11_window: the capture child held, 0 for None
    children,             \* number of capture children spawned so far; child t
                          \* feeds render thread t
    child_alive,          \* per child: the process has not been killed
    pipe,                 \* per child: the frames written to stdout and not yet read
    next_serial,          \* number of frames captured so far on the display
    rt_pc,                \* per render thread: "none" | "loop" | "decide" | "send" | "done"
    frame_queue,          \* per render thread: frame_queue
    rt_output,            \* per render thread: the painted frame being sent
    completed_frames,     \* sync_channel(1) of painted frames, in flight
    sink_pc,              \* display_render_thread: "idle" | "loop" | "done" | "failed"
    sink_seen,            \* history: the painted frames the sink received, in order
    buffer,               \* SessionWriter.buffer: written and not yet flushed
    session_data,         \* history: the units handed to session_handle.data
    size_kept             \* history: a PTY request or window change left
                          \* TerminalSize as it was while a child was held

renderVars == <<target_width, target_height, drv_pc, last_width, last_height,
                current_process, children, child_alive, pipe, next_serial,
                rt_pc, frame_queue, rt_output, completed_frames, sink_pc,
                sink_seen, buffer, session_data, size_kept>>

\* The task spawned by handle_session_background on Success, which calls
\* minecraft::run, and the game child with its monitor thread.
VARIABLES
    task_pc,              \* "idle" | "launch" | "join" | "close" | "release" |
                          \* "end" | "panicked"
    game,                 \* the game child: "none" | "alive" | "exited"
    mon_pc,               \* the monitor thread of run_minecraft: "none" |
                          \* "watch" | "shutdown" | "term" | "done"
    channel_closed        \* session_handle.close(channel_id) has been called

lifeVars == <<task_pc, game, mon_pc, channel_closed>>

\* One call of render::frame_to_rgb_ansi from render_byte_stream.
VARIABLES
    enc_pc,               \* "idle" | "frame" | "painted" | "sent"
    enc_height,           \* render_byte_stream: height
    enc_width,            \* render_byte_stream: width
    frame_data,           \* the bytes of the frame: byte i is
                          \* frame_data[(i % Len(frame_data)) + 1]
    output_len            \* output.len() of the String being built

encVars == <<enc_pc, enc_height, enc_width, frame_data, output_len>>

\* The session handler's side of the pool (handle_session_background).
VARIABLES
    statuses_read,        \* number of statuses the observed session has received
    my_x_session,         \* per handler copy: Option<u32> as a set, {} for None
    dropped               \* the handler copies that have been dropped

\* The cancel sender kept by a ResourceAllocator and its clones.
VARIABLES
    cancel_tx,            \* Mutex<Option<oneshot::Sender>>: {} for None, {req}
                          \* for the cancel sender of request req
    store_pending,        \* the requests whose spawned storing task has not run
    cancel_called         \* history: the requests for which cancel() was called

allocVars == <<cancel_tx, store_pending, cancel_called>>

\* The inbound byte queue of a client (input_channel_tx / input_channel_rx).
VARIABLES
    input_channel,        \* unbounded channel of Vec<u8> chunks, in flight
    bytes_enqueued,       \* history: number of bytes Handler::data has sent;
                          \* the k-th byte a client sends is written k
    bytes_returned        \* history: the bytes SessionReader::read has returned

readerVars == <<input_channel, bytes_enqueued, bytes_returned>>

glueVars == <<statuses_read, my_x_session, dropped, allocVars, readerVars>>

stageVars == <<sessVars, xdoVars, renderVars, lifeVars, encVars, glueVars>>

\* Everything but the session flags and the state of the input translator /
\* of the render chain / of the session task.
notXdo == <<poolVars, renderVars, lifeVars, encVars, glueVars>>
notRender == <<poolVars, xdoVars, lifeVars, encVars, glueVars>>
notLife == <<poolVars, xdoVars, renderVars, encVars, glueVars>>

vars == <<poolVars, stageVars>>

Requests == 0 .. (NumRequests - 1)

(***************************************************************************)
(* ResourceStatus                                                          *)
(***************************************************************************)
Success(res_id) == [tag |-> "Success", v |-> res_id]

Failed == [tag |-> "Failed", v |-> 0]

QueuePosition(n) == [tag |-> "QueuePosition", v |-> n]

Cancelled == [tag |-> "Cancelled", v |-> 0]

IsTerminal(s) == s.tag \in {"Success", "Cancelled", "Failed"}

\* req.status.send(msg): an unbounded send; it fails (and is ignored by
\* `let _ =`) once the receiver has been dropped.
Send(st, req, msg) ==
    IF status_rx_open[req] THEN [st EXCEPT ![req] = Append(@, msg)] ELSE st

\* Mutant of Range: the slots in descending order.
RECURSIVE RangeDescending(_)
RangeDescending(n) == IF n = 0 THEN <<>> ELSE <<n - 1>> \o RangeDescending(n - 1)

\* 0 .. n-1 as a sequence: VecDeque::from((0..resource_count).collect())
RECURSIVE Range(_)
Range(n) == IF n = 0 THEN <<>> ELSE Append(Range(n - 1), n - 1)

\* Mutant of Broadcast: positions counted from one.
RECURSIVE BroadcastFromOne(_, _, _)
BroadcastFromOne(pend, i, st) ==
    IF i > Len(pend) THEN st
    ELSE BroadcastFromOne(pend, i + 1, Send(st, pend[i], QueuePosition(i)))

\* Mutant of Broadcast: the waiter at the front of the wait set is not told.
RECURSIVE BroadcastBehindFront(_, _, _)
BroadcastBehindFront(pend, i, st) ==
    IF i >= Len(pend) THEN st
    ELSE BroadcastBehindFront(pend, i + 1,
                              Send(st, pend[i + 1], QueuePosition(i)))

\* The trailing loop of every turn: QueuePosition(i) to the waiter at index i.
RECURSIVE Broadcast(_, _, _)
Broadcast(pend, i, st) ==
    IF i > Len(pend) THEN st
    ELSE Broadcast(pend, i + 1, Send(st, pend[i], QueuePosition(i - 1)))

\* Mutant of EnqueuePosition: the position counted after the push.
EnqueuePositionAfterPush(pend) == Len(pend) + 1

\* The position reported to a request as it is pushed onto the wait set.
EnqueuePosition(pend) == Len(pend)

Last(s) == s[Len(s)]

\* Mutant of ReleaseWalk: a cancelled waiter at the front is told Cancelled
\* but left in the wait set, and the loop stops there.
ReleaseWalkStall(pend, st, resp, res_id) ==
    IF pend = <<>> THEN [pend |-> pend, resp |-> resp, st |-> st]
    ELSE LET req == Head(pend) IN
         IF cancel[req]
         THEN [pend |-> pend, resp |-> resp, st |-> st]
         ELSE [pend |-> Tail(pend),
               resp |-> [resp EXCEPT ![req] = "dropped"],
               st |-> Send(st, req, Success(res_id))]

\* Mutant of ReleaseWalk: waiters are popped from the back (pop_back).
RECURSIVE ReleaseWalkBack(_, _, _, _)
ReleaseWalkBack(pend, st, resp, res_id) ==
    IF pend = <<>> THEN [pend |-> pend, resp |-> resp, st |-> st]
    ELSE LET req == Last(pend)
             rest == SubSeq(pend, 1, Len(pend) - 1) IN
         IF cancel[req]
         THEN ReleaseWalkBack(rest, Send(st, req, Cancelled),
                              [resp EXCEPT ![req] = "dropped"], res_id)
         ELSE [pend |-> rest,
               resp |-> [resp EXCEPT ![req] = "dropped"],
               st |-> Send(st, req, Success(res_id))]

\* Mutant of ReleaseWalk: cancelled waiters are discarded without being told.
RECURSIVE ReleaseWalkSilent(_, _, _, _)
ReleaseWalkSilent(pend, st, resp, res_id) ==
    IF pend = <<>> THEN [pend |-> pend, resp |-> resp, st |-> st]
    ELSE LET req == Head(pend) IN
         IF cancel[req]
         THEN ReleaseWalkSilent(Tail(pend), st,
                                [resp EXCEPT ![req] = "dropped"], res_id)
         ELSE [pend |-> Tail(pend),
               resp |-> [resp EXCEPT ![req] = "dropped"],
               st |-> Send(st, req, Success(res_id))]

(***************************************************************************)
(* The release arm's while-let loop: pop waiters from the front; a waiter  *)
(* whose cancel has fired gets Cancelled and is dropped, the first other   *)
(* one gets Success(res_id) and the loop breaks.                           *)
(***************************************************************************)
RECURSIVE ReleaseWalk(_, _, _, _)
ReleaseWalk(pend, st, resp, res_id) ==
    IF pend = <<>> THEN [pend |-> pend, resp |-> resp, st |-> st]
    ELSE LET req == Head(pend) IN
         IF cancel[req]
         THEN ReleaseWalk(Tail(pend), Send(st, req, Cancelled),
                          [resp EXCEPT ![req] = "dropped"], res_id)
         ELSE [pend |-> Tail(pend),
               resp |-> [resp EXCEPT ![req] = "dropped"],
               st |-> Send(st, req, Success(res_id))]

\* Mutant of ReleasePushBack: the emptiness test inverted.
ReleasePushBackInverted(avail, pendAfter, res_id) ==
    IF pendAfter # <<>> THEN Append(avail, res_id) ELSE avail

\* Mutant of ReleasePushBack: the released slot is always put back.
ReleasePushBackAlways(avail, pendAfter, res_id) == Append(avail, res_id)

\* `if pending_requests.is_empty() { available_resources.push_back(res_id) }`
ReleasePushBack(avail, pendAfter, res_id) ==
    IF pendAfter = <<>> THEN Append(avail, res_id) ELSE avail

\* The movement keys of the wasd_release_time table.
WasdKeys == {"w", "a", "s", "d"}

\* No session has been started: no stage thread exists.
SessIdle ==
    /\ xorg_display = 0
    /\ running = TRUE

\* let mut inventory_open = true; let mut last_mouse_x = 0u16;
\* let mut last_mouse_y = 0u16;
MouseIdle ==
    /\ inventory_open = TRUE
    /\ last_mouse_x = 0
    /\ last_mouse_y = 0
    /\ mouse_events = 0

\* The translator thread and its channel do not exist yet.
TranslatorIdle ==
    /\ input_rx = <<>>
    /\ input_tx_open = FALSE
    /\ events_sent = 0
    /\ xdo_pc = "idle"
    /\ pressed = [c \in WasdKeys |-> FALSE]
    /\ release_in = [c \in WasdKeys |-> 0]
    /\ commands = <<>>
    /\ MouseIdle

XdoIdle == SessIdle /\ TranslatorIdle

\* Number of capture children (and render threads) spawned in the model.
MaxChildren == 2

\* Number of frames the capture children write in the model.
MaxFrames == 4

\* config.rs: the game's native resolution.
GAME_WIDTH == 640
GAME_HEIGHT == 480

\* TerminalSize { target_width: 10, target_height: 10 } of new_client.
InitialTargetWidth == 10
InitialTargetHeight == 10

Children == 1 .. MaxChildren

\* No painted frame.
NoOutput == [ansi |-> 0]

RenderIdle ==
    /\ target_width = InitialTargetWidth
    /\ target_height = InitialTargetHeight
    /\ drv_pc = "idle"
    /\ last_width = 0
    /\ last_height = 0
    /\ current_process = 0
    /\ children = 0
    /\ child_alive = [t \in Children |-> FALSE]
    /\ pipe = [t \in Children |-> <<>>]
    /\ next_serial = 0
    /\ rt_pc = [t \in Children |-> "none"]
    /\ frame_queue = [t \in Children |-> <<>>]
    /\ rt_output = [t \in Children |-> NoOutput]
    /\ completed_frames = <<>>
    /\ sink_pc = "idle"
    /\ sink_seen = <<>>
    /\ buffer = <<>>
    /\ session_data = <<>>
    /\ size_kept = FALSE

LifeIdle ==
    /\ task_pc = "idle"
    /\ game = "none"
    /\ mon_pc = "none"
    /\ channel_closed = FALSE

\* No frame is being encoded.
EncIdle ==
    /\ enc_pc = "idle"
    /\ enc_height = 0
    /\ enc_width = 0
    /\ frame_data = <<>>
    /\ output_len = 0

\* The copies of a client's MinecraftClientSession: the one russh holds for
\* the connection and the clone moved into handle_session_background.
Handlers == {"connection", "task"}

\* The observed session has read nothing from its status stream; new_client
\* creates the handler with my_x_session: None, and the clone copies it.
GlueIdle ==
    /\ statuses_read = 0
    /\ my_x_session = [h \in Handlers |-> {}]
    /\ dropped = {}
    /\ cancel_tx = {}
    /\ store_pending = {}
    /\ cancel_called = {}
    /\ input_channel = <<>>
    /\ bytes_enqueued = 0
    /\ bytes_returned = <<>>

StagesIdle == XdoIdle /\ RenderIdle /\ LifeIdle /\ EncIdle /\ GlueIdle

Init ==
    /\ StagesIdle
    /\ resource_count \in 1 .. MaxResourceCount
    /\ available_resources = Range(resource_count)
    /\ pending_requests = <<>>
    /\ request_rx = <<>>
    /\ release_rx = <<>>
    /\ next_id = 0
    /\ cancel = [r \in Requests |-> FALSE]
    /\ response = [r \in Requests |-> "none"]
    /\ status = [r \in Requests |-> <<>>]
    /\ status_rx_open = [r \in Requests |-> FALSE]
    /\ session = [r \in Requests |-> "none"]
    /\ last_turn = [after_release |-> FALSE,
                    free_empty |-> FALSE,
                    op |-> "none",
                    req |-> 0,
                    slot |-> 0,
                    wait_empty |-> FALSE]

\* Number of releases sent so far: one per session that has released.
ReleasesSent == Cardinality({r \in Requests : session[r] = "released"})

\* Number of releases the pool has processed so far.
ReleasesDone == ReleasesSent - Len(release_rx)

(***************************************************************************)
(* ResourceAllocator::request_resource, called by channel_open_session.    *)
(***************************************************************************)
RequestResource ==
    /\ next_id < NumRequests
    /\ next_id' = next_id + 1
    /\ request_rx' = Append(request_rx,
                             [id |-> next_id, releases_before |-> ReleasesSent])
    /\ response' = [response EXCEPT ![next_id] = "alive"]
    /\ status_rx_open' = [status_rx_open EXCEPT ![next_id] = TRUE]
    /\ session' = [session EXCEPT ![next_id] = "waiting"]
    /\ UNCHANGED stageVars
    /\ UNCHANGED <<resource_count, available_resources, pending_requests,
                   release_rx, cancel, status, last_turn>>

(***************************************************************************)
(* ResourceAllocator::cancel firing the cancel oneshot of request req.     *)
(* Once the pool has dropped the request the receiver is gone and the      *)
(* send has no effect.                                                     *)
(***************************************************************************)
Cancel(req) ==
    /\ response[req] = "alive"
    /\ ~cancel[req]
    /\ cancel' = [cancel EXCEPT ![req] = TRUE]
    /\ UNCHANGED stageVars
    /\ UNCHANGED <<resource_count, available_resources, pending_requests,
                   request_rx, release_rx, next_id, response, status,
                   status_rx_open, session, last_turn>>

(***************************************************************************)
(* One turn of resource_queue_manager taking the request arm.              *)
(***************************************************************************)
RequestArm ==
    /\ request_rx # <<>>
    /\ LET req == Head(request_rx).id IN
       /\ request_rx' = Tail(request_rx)
       /\ IF available_resources # <<>>
          THEN LET res_id == Head(available_resources) IN
               /\ IF ~cancel[req]
                  THEN /\ available_resources' = Tail(available_resources)
                       /\ status' = Broadcast(pending_requests, 1,
                                              Send(status, req, Success(res_id)))
                  ELSE /\ available_resources' =
                              Append(Tail(available_resources), res_id)
                       /\ status' = Broadcast(pending_requests, 1,
                                              Send(status, req, Cancelled))
               /\ response' = [response EXCEPT ![req] = "dropped"]
               /\ UNCHANGED pending_requests
          ELSE /\ pending_requests' = Append(pending_requests, req)
               /\ status' = Broadcast(pending_requests', 1,
                              Send(status, req,
                                   QueuePosition(EnqueuePosition(pending_requests))))
               /\ UNCHANGED <<available_resources, response>>
       /\ last_turn' = IF last_turn.op = "release"
                         THEN [last_turn EXCEPT !.op = "request", !.req = req,
                                                !.after_release = TRUE]
                         ELSE [after_release |-> FALSE,
                               free_empty |-> FALSE,
                               op |-> "request",
                               req |-> req,
                               slot |-> 0,
                               wait_empty |-> FALSE]
    /\ UNCHANGED stageVars
    /\ UNCHANGED <<resource_count, release_rx, next_id, cancel, status_rx_open,
                   session>>

(***************************************************************************)
(* One turn of resource_queue_manager taking the release arm.              *)
(***************************************************************************)
ReleaseArm ==
    /\ release_rx # <<>>
    /\ LET res_id == Head(release_rx)
           w == ReleaseWalk(pending_requests, status, response, res_id)
       IN
       /\ release_rx' = Tail(release_rx)
       /\ pending_requests' = w.pend
       /\ response' = w.resp
       /\ available_resources' = ReleasePushBack(available_resources, w.pend, res_id)
       /\ status' = Broadcast(w.pend, 1, w.st)
       /\ last_turn' = [after_release |-> FALSE,
                        free_empty |-> (available_resources = <<>>),
                        op |-> "release",
                        req |-> 0,
                        slot |-> res_id,
                        wait_empty |-> (pending_requests = <<>>)]
    /\ UNCHANGED stageVars
    /\ UNCHANGED <<resource_count, request_rx, next_id, cancel, status_rx_open,
                   session>>

(***************************************************************************)
(* The helper task spawned by request_resource: res_rx.await returns Err   *)
(* as soon as the request (and with it the response sender) is dropped,    *)
(* and the task then sends Failed into the status stream.  Once the        *)
(* session has dropped status_rx the send fails and the task ends without  *)
(* any effect, so the step is taken only while the receiver is open.       *)
(***************************************************************************)
ResponseWatcher(req) ==
    /\ response[req] = "dropped"
    /\ status_rx_open[req]
    /\ response' = [response EXCEPT ![req] = "done"]
    /\ status' = Send(status, req, Failed)
    /\ UNCHANGED stageVars
    /\ UNCHANGED <<resource_count, available_resources, pending_requests,
                   request_rx, release_rx, next_id, cancel, status_rx_open,
                   session, last_turn>>

\* Index of the first terminal status of a stream, 0 if there is none.
FirstTerminal(s) ==
    IF \E i \in 1 .. Len(s) : IsTerminal(s[i])
    THEN CHOOSE i \in 1 .. Len(s) :
            IsTerminal(s[i]) /\ \A j \in 1 .. (i - 1) : ~IsTerminal(s[j])
    ELSE 0

(***************************************************************************)
(* handle_session_background: the session reads its status stream up to    *)
(* the first terminal status, then breaks out of the loop, which drops     *)
(* status_rx.  On Success it starts the game session on the slot.          *)
(***************************************************************************)
SessionRecv(req) ==
    /\ session[req] = "waiting"
    /\ FirstTerminal(status[req]) # 0
    /\ session' = [session EXCEPT ![req] =
            IF status[req][FirstTerminal(status[req])].tag = "Success"
            THEN "running" ELSE "ended"]
    /\ status_rx_open' = [status_rx_open EXCEPT ![req] = FALSE]
    /\ UNCHANGED stageVars
    /\ UNCHANGED <<resource_count, available_resources, pending_requests,
                   request_rx, release_rx, next_id, cancel, response, status, last_turn>>

\* The slot a running session was granted.
GrantedSlot(req) == status[req][FirstTerminal(status[req])].v

(***************************************************************************)
(* The session's task after minecraft::run returns:                        *)
(* self.allocator.release(resource_id).                                    *)
(***************************************************************************)
SessionRelease(req) ==
    /\ session[req] = "running"
    /\ release_rx' = Append(release_rx, GrantedSlot(req))
    /\ session' = [session EXCEPT ![req] = "released"]
    /\ UNCHANGED stageVars
    /\ UNCHANGED <<resource_count, available_resources, pending_requests,
                   request_rx, next_id, cancel, response, status,
                   status_rx_open, last_turn>>

Next ==
    \/ RequestResource
    \/ \E req \in Requests : Cancel(req)
    \/ RequestArm
    \/ ReleaseArm
    \/ \E req \in Requests : ResponseWatcher(req)
    \/ \E req \in Requests : SessionRecv(req)
    \/ \E req \in Requests : SessionRelease(req)

Spec == Init /\ [][Next]_vars

(***************************************************************************)
(* Fairness: the pool task is scheduled whenever a channel has a message;  *)
(* a session reads its status stream; a session that was granted a slot    *)
(* eventually releases it.  New requests and cancels are up to the clients.*)
(***************************************************************************)
\* Number of requests issued in the behaviours checked for liveness.
MaxLiveRequests == 3

FairSpec ==
    /\ Init
    /\ [][Next /\ next_id' <= MaxLiveRequests]_vars
    /\ WF_vars(RequestArm \/ ReleaseArm)
    /\ \A req \in Requests : WF_vars(SessionRecv(req))
    /\ \A req \in Requests : WF_vars(SessionRelease(req))

(***************************************************************************)
(* Vocabulary of the properties                                            *)
(***************************************************************************)
\* A step of the pool that takes the request arm / the release arm.
RequestStep == request_rx # <<>> /\ request_rx' = Tail(request_rx)

ReleaseStep == release_rx # <<>> /\ release_rx' = Tail(release_rx)

HasStatus(req, msg) == \E i \in 1 .. Len(status[req]) : status[req][i] = msg

HasTag(req, tag) == \E i \in 1 .. Len(status[req]) : status[req][i].tag = tag

TerminalCount(req) ==
    Cardinality({i \in 1 .. Len(status[req]) : IsTerminal(status[req][i])})

\* The request holds slot s: Success(s) was sent to it and it has not released.
Holds(req, s) == HasStatus(req, Success(s)) /\ session[req] # "released"

Holders == {req \in Requests : \E s \in 0 .. (resource_count - 1) : Holds(req, s)}

\* The request was put on the wait set when the pool processed it.
WasQueued(req) == status[req] # <<>> /\ Head(status[req]).tag = "QueuePosition"

\* Index in a wait set of its frontmost waiter whose cancel has not fired, 0 if none.
FrontLive(pend) ==
    IF \E i \in 1 .. Len(pend) : ~cancel[pend[i]]
    THEN CHOOSE i \in 1 .. Len(pend) :
            ~cancel[pend[i]] /\ \A j \in 1 .. (i - 1) : cancel[pend[j]]
    ELSE 0

\* The positions carried by the QueuePosition statuses of a stream, in order.
RECURSIVE Positions(_)
Positions(s) ==
    IF s = <<>> THEN <<>>
    ELSE IF Head(s).tag = "QueuePosition"
         THEN <<Head(s).v>> \o Positions(Tail(s))
         ELSE Positions(Tail(s))

(***************************************************************************)
(* C1: no slot is held by two requests at the same time, and the number    *)
(* of simultaneous holders never exceeds resource_count (every holder      *)
(* releases only after Success and only once).                             *)
(***************************************************************************)
C1_ExclusiveSlots ==
    /\ \A r1, r2 \in Requests : \A s \in 0 .. (resource_count - 1) :
          (r1 # r2) => ~(Holds(r1, s) /\ Holds(r2, s))
    /\ Cardinality(Holders) <= resource_count

(***************************************************************************)
(* C2: when a release is processed and some waiter's cancel has not fired, *)
(* the frontmost such waiter is sent Success(slot) and the slot is not     *)
(* put back into the free set, also when no waiter remains afterwards.     *)
(***************************************************************************)
C2_ReleaseHandsOver ==
    [][(ReleaseStep /\ FrontLive(pending_requests) # 0) =>
         LET req == pending_requests[FrontLive(pending_requests)] IN
         /\ Last(status'[req]) = Success(Head(release_rx))
         /\ available_resources' = available_resources]_vars

(***************************************************************************)
(* C3: at most one terminal status (Success, Cancelled, Failed) is ever    *)
(* sent into the status stream of a request, counting the pool's sends     *)
(* and the helper task's Failed.                                           *)
(***************************************************************************)
C3_AtMostOneTerminal == \A req \in Requests : TerminalCount(req) <= 1

(***************************************************************************)
(* C4: under FairSpec every request that has been issued is eventually     *)
(* sent a terminal status, also when its cancel fired while it waited.     *)
(***************************************************************************)
C4_EventuallyTerminal ==
    \A req \in Requests :
        (response[req] = "alive") ~> (FirstTerminal(status[req]) # 0)

\* A request whose cancel fired and that was put on the wait set has been
\* sent Cancelled.
C4_Witness ==
    \E req \in Requests :
        cancel[req] /\ WasQueued(req) /\ HasStatus(req, Cancelled)

(***************************************************************************)
(* C5 (as claimed): waiters are served in FIFO order, and a release sent   *)
(* before an acquire is processed before that acquire.                     *)
(***************************************************************************)
FifoAmongWaiters ==
    \A r1, r2 \in Requests :
        (r1 < r2 /\ WasQueued(r1) /\ WasQueued(r2)
            /\ HasTag(r2, "Success") /\ ~cancel[r1])
        => HasTag(r1, "Success")

C5_Original ==
    /\ []FifoAmongWaiters
    /\ [][RequestStep => Head(request_rx).releases_before <= ReleasesDone]_vars

(***************************************************************************)
(* C5 (amended): waiters are served in FIFO order: if r1 was appended to   *)
(* the wait set before r2 and r1's cancel has not fired, r2 is not sent    *)
(* Success before r1 is.  (Releases and acquires travel on two channels    *)
(* polled by select!, so no order holds between a release and an acquire.) *)
(***************************************************************************)
C5_FifoWaiters == FifoAmongWaiters

\* Two requests that both waited have both been served.
C5_Witness ==
    \E r1, r2 \in Requests :
        /\ r1 < r2 /\ WasQueued(r1) /\ WasQueued(r2)
        /\ ~cancel[r1] /\ HasTag(r1, "Success") /\ HasTag(r2, "Success")

(***************************************************************************)
(* C6: a waiter whose cancel has fired is sent Cancelled and removed at    *)
(* the latest while the next release is processed, whatever its position   *)
(* in the wait set.                                                        *)
(***************************************************************************)
C6_CancelSeenAtRelease ==
    [][ReleaseStep =>
         \A i \in 1 .. Len(pending_requests) :
            LET req == pending_requests[i] IN
            cancel[req] =>
                /\ \A j \in 1 .. Len(pending_requests') : pending_requests'[j] # req
                /\ \E k \in 1 .. Len(status'[req]) : status'[req][k] = Cancelled]_vars

(***************************************************************************)
(* C7: MAX_SLOTS = 1, A (request 0) holds slot 0, B, C, D (1, 2, 3) wait   *)
(* in that order and C's cancel has fired.  When A's release is processed: *)
(* B is sent Success(0), C is sent Cancelled and no Success, and the last  *)
(* QueuePosition sent to D is 0.                                           *)
(***************************************************************************)
C7_Scenario ==
    [][( /\ ReleaseStep
         /\ resource_count = 1
         /\ Head(release_rx) = 0
         /\ status[0] # <<>> /\ Head(status[0]) = Success(0)
         /\ session[0] = "released"
         /\ pending_requests = <<1, 2, 3>>
         /\ ~cancel[1] /\ cancel[2] /\ ~cancel[3] )
       =>
       ( /\ Last(status'[1]) = Success(0)
         /\ HasStatus(2, Cancelled)' /\ ~HasTag(2, "Success")'
         /\ Last(Positions(status'[3])) = 0 )]_vars

(***************************************************************************)
(* C8: on a fresh pool of N slots the first N acquires are sent            *)
(* Success(0) .. Success(N-1) in order as their first status and the next  *)
(* acquire is sent QueuePosition(0) as its first status; when a holder     *)
(* then releases slot k that waiter is sent Success(k); and no             *)
(* QueuePosition is sent to a request after Success was sent to it.        *)
(***************************************************************************)
FirstAcquiresGranted ==
    \A req \in Requests :
        (req < resource_count /\ status[req] # <<>> /\ ~cancel[req])
        => Head(status[req]) = Success(req)

NextAcquireQueued ==
    ( /\ resource_count \in Requests
      /\ status[resource_count] # <<>>
      /\ \A req \in 0 .. (resource_count - 1) :
            ~cancel[req] /\ session[req] # "released" )
    => Head(status[resource_count]) = QueuePosition(0)

NoPositionAfterSuccess ==
    \A req \in Requests : \A i, j \in 1 .. Len(status[req]) :
        (i < j /\ status[req][i].tag = "Success")
        => status[req][j].tag # "QueuePosition"

C8_FreshPoolScenario ==
    /\ [](FirstAcquiresGranted /\ NextAcquireQueued /\ NoPositionAfterSuccess)
    /\ [][( /\ ReleaseStep
            /\ pending_requests = <<resource_count>>
            /\ ~cancel[resource_count] )
          => Last(status'[resource_count]) = Success(Head(release_rx))]_vars

\* MAX_SLOTS = 2: A and B were granted 0 and 1, C waited at position 0 and
\* was then granted the slot a holder released.
C8_Witness ==
    /\ resource_count = 2
    /\ \A req \in 0 .. 2 : status[req] # <<>>
    /\ Head(status[0]) = Success(0)
    /\ Head(status[1]) = Success(1)
    /\ Head(status[2]) = QueuePosition(0)
    /\ HasTag(2, "Success")

(***************************************************************************)
(* C9: the positions carried by the QueuePosition statuses sent to a       *)
(* request never increase.                                                 *)
(***************************************************************************)
C9_PositionsNonIncreasing ==
    \A req \in Requests :
        LET p == Positions(status[req]) IN
        \A i, j \in 1 .. Len(p) : (i < j) => p[i] >= p[j]

\* A waiter has moved up: it was sent a position and later a smaller one.
C9_Witness ==
    \E req \in Requests :
        LET p == Positions(status[req]) IN
        \E i, j \in 1 .. Len(p) : i < j /\ p[i] > p[j]

(***************************************************************************)
(* C10 (as claimed): if the wait set is empty when the release of slot s   *)
(* is processed, the acquire processed next is sent Success(s), whatever   *)
(* the free set held.                                                      *)
(***************************************************************************)
C10_Original ==
    [][( /\ RequestStep
         /\ last_turn.op = "release"
         /\ last_turn.wait_empty )
       => status'[Head(request_rx).id] = <<Success(last_turn.slot)>>]_vars

(***************************************************************************)
(* C10 (amended): if the wait set and the free set are both empty when     *)
(* the release of slot s is processed, the acquire processed next, unless  *)
(* its cancel has fired, is sent Success(s).                               *)
(***************************************************************************)
C10_ReleaseThenAcquire ==
    [][( /\ RequestStep
         /\ last_turn.op = "release"
         /\ last_turn.wait_empty
         /\ last_turn.free_empty
         /\ ~cancel[Head(request_rx).id] )
       => status'[Head(request_rx).id] = <<Success(last_turn.slot)>>]_vars

\* The latest two pool turns were such a release and an acquire, and the
\* acquire was granted the released slot.
C10_Witness ==
    /\ last_turn.op = "request"
    /\ last_turn.after_release
    /\ last_turn.wait_empty
    /\ last_turn.free_empty
    /\ status[last_turn.req] # <<>>
    /\ Head(status[last_turn.req]) = Success(last_turn.slot)

(***************************************************************************)
(* C11: when a release is processed and every request in the wait set has  *)
(* its cancel signal fired, each of them receives Cancelled and leaves the *)
(* wait set, no request receives Success, and the released slot is         *)
(* appended to the free set exactly once.                                  *)
(***************************************************************************)
AllWaitersCancelled ==
    \A i \in 1 .. Len(pending_requests) : cancel[pending_requests[i]]

Occurrences(s, x) == Cardinality({i \in 1 .. Len(s) : s[i] = x})

C11_AllCancelledRelease ==
    [][(ReleaseStep /\ AllWaitersCancelled) =>
         /\ pending_requests' = <<>>
         /\ \A i \in 1 .. Len(pending_requests) :
               status'[pending_requests[i]] =
                   Append(status[pending_requests[i]], Cancelled)
         /\ \A req \in Requests :
               \A k \in 1 .. Len(status'[req]) :
                   status'[req][k].tag = "Success" => k <= Len(status[req])
         /\ available_resources' =
               Append(available_resources, Head(release_rx))
         /\ Occurrences(available_resources', Head(release_rx)) =
               Occurrences(available_resources, Head(release_rx)) + 1]_vars

\* One slot, one holder, two queued waiters both cancelled, then the release:
\* both were told Cancelled and the slot is the only free one.
C11_Witness ==
    /\ resource_count = 1
    /\ last_turn.op = "release"
    /\ ~last_turn.wait_empty
    /\ pending_requests = <<>>
    /\ Cardinality({req \in Requests : HasTag(req, "Success")}) = 1
    /\ Cardinality({req \in Requests :
                       /\ WasQueued(req)
                       /\ Last(status[req]) = Cancelled}) = 2
    /\ available_resources = <<last_turn.slot>>

(***************************************************************************)
(* The input translator: xdo::forward_input_to_minecraft (xdo.rs 12-270).  *)
(* Time is counted in ticks of 50 ms, the receive timeout of the loop;     *)
(* release_in[c] is the time left until release_time of key c.             *)
(***************************************************************************)
\* Number of InputEvents sent to the translator in the model.
MaxEvents == 3

\* recv_timeout(Duration::from_millis(50)), in ticks.
TimeoutTicks == 1

\* Instant::now() + Duration::from_millis(100), in ticks.
HoldTicks == 2

\* The display named in run_xdotool: .env("DISPLAY", ":1").
XdoDisplay == 1

\* Key(Char c) events of the model: the movement keys and one key of the
\* `_ =>` arm.
KeyChars == WasdKeys \cup {"x"}

\* InputEvent::Key(KeyEvent { code, .. }); ch is the c of KeyCode::Char(c).
KeyEvent(code, ch) ==
    [ch |-> ch, code |-> code, column |-> 0, row |-> 0, type |-> "Key"]

CharEvent(c) == KeyEvent("Char", c)

\* InputEvent::Mouse(MouseEvent { kind, column, row, .. })
MouseEvent(kind, column, row) ==
    [ch |-> "",
     code |-> kind,
     column |-> column,
     row |-> row,
     type |-> "Mouse"]

\* One run_xdotool invocation with the DISPLAY of its environment.
RunXdotool(cmds, cmd, arg) ==
    Append(cmds, [arg |-> arg, cmd |-> cmd, display |-> XdoDisplay])

\* Mutant of WasdArm: keydown is issued on every Char c.
WasdArmRepeat(c, t) ==
    [t EXCEPT !.pressed[c] = TRUE,
              !.release_in[c] = HoldTicks,
              !.commands = RunXdotool(t.commands, "keydown", c)]

\* The 'w' | 'a' | 's' | 'd' arm applied to the translator state t.
WasdArm(c, t) ==
    [t EXCEPT !.pressed[c] = TRUE,
              !.release_in[c] = HoldTicks,
              !.commands = IF ~t.pressed[c]
                           THEN RunXdotool(t.commands, "keydown", c)
                           ELSE t.commands]

\* The grave accent character of KeyCode::Char, by its keysym name.
Backtick == "grave"

\* Mutant of KeyArm: a mode toggle also forgets the last mouse position.
KeyArmForgetsMouse(c, t) ==
    IF c = Backtick
    THEN [t EXCEPT !.inventory_open = ~t.inventory_open,
                   !.last_mouse_x = 0, !.last_mouse_y = 0]
    ELSE IF c = "e"
    THEN [t EXCEPT !.inventory_open = ~t.inventory_open,
                   !.last_mouse_x = 0, !.last_mouse_y = 0,
                   !.commands = RunXdotool(t.commands, "key", "e")]
    ELSE IF c \in WasdKeys THEN WasdArm(c, t)
    ELSE [t EXCEPT !.commands = RunXdotool(t.commands, "key", c)]

\* The match on KeyCode::Char(c).
KeyArm(c, t) ==
    IF c = Backtick THEN [t EXCEPT !.inventory_open = ~t.inventory_open]
    ELSE IF c = "e"
    THEN [t EXCEPT !.inventory_open = ~t.inventory_open,
                   !.commands = RunXdotool(t.commands, "key", "e")]
    ELSE IF c \in WasdKeys THEN WasdArm(c, t)
    ELSE [t EXCEPT !.commands = RunXdotool(t.commands, "key", c)]

\* Mutant of KeyCodeArm: Enter closes the inventory as Esc does.
KeyCodeArmEnterCloses(ev, t) ==
    IF ev.code = "Char" THEN KeyArm(ev.ch, t)
    ELSE IF ev.code = "Esc"
    THEN [t EXCEPT !.inventory_open = FALSE,
                   !.commands = RunXdotool(t.commands, "key", "Escape")]
    ELSE IF ev.code = "Enter"
    THEN [t EXCEPT !.inventory_open = FALSE,
                   !.commands = RunXdotool(t.commands, "key", "Return")]
    ELSE t

\* The match on key_event.code.
KeyCodeArm(ev, t) ==
    IF ev.code = "Char" THEN KeyArm(ev.ch, t)
    ELSE IF ev.code = "Esc"
    THEN [t EXCEPT !.inventory_open = FALSE,
                   !.commands = RunXdotool(t.commands, "key", "Escape")]
    ELSE IF ev.code = "Enter"
    THEN [t EXCEPT !.commands = RunXdotool(t.commands, "key", "Return")]
    ELSE t

RECURSIVE Pow2(_)
Pow2(n) == IF n = 0 THEN 1 ELSE 2 * Pow2(n - 1)

\* 2^23, the hidden bit of the 24-bit significand of an f32.
F32Hidden == 8388608

\* An f32 is m * 2^e with m = 0 or 2^23 <= m < 2^24.  F32Round(q, r, d, e)
\* is the f32 nearest to (q + r / d) * 2^e for r < d, a tie going to the
\* even mantissa: the quotient is extended bit by bit to 24 bits.
RECURSIVE F32Round(_, _, _, _)
F32Round(q, r, d, e) ==
    IF q < F32Hidden
    THEN F32Round(2 * q + (2 * r) \div d, (2 * r) % d, d, e - 1)
    ELSE IF 2 * r < d \/ (2 * r = d /\ q % 2 = 0) THEN [e |-> e, m |-> q]
    ELSE IF q + 1 = 2 * F32Hidden THEN [e |-> e + 1, m |-> F32Hidden]
    ELSE [e |-> e, m |-> q + 1]

\* The f32 nearest to (n / d) * 2^e.
RECURSIVE F32Quot(_, _, _)
F32Quot(n, d, e) ==
    IF n = 0 THEN [e |-> 0, m |-> 0]
    ELSE IF n \div d >= 2 * F32Hidden THEN F32Quot(n, 2 * d, e + 1)
    ELSE F32Round(n \div d, n % d, d, e)

\* a as f32 / b as f32, for b > 0.
F32Div(a, b) == F32Quot(a, b, 0)

RECURSIVE OddPart(_)
OddPart(g) == IF g % 2 = 1 THEN g ELSE OddPart(g \div 2)

RECURSIVE TwoExp(_)
TwoExp(g) == IF g % 2 = 1 THEN 0 ELSE 1 + TwoExp(g \div 2)

\* x * (g as f32), for an integer g > 0.
F32Mul(x, g) == F32Quot(x.m * OddPart(g), 1, x.e + TwoExp(g))

\* x as u16, for x >= 0: truncation, saturating at u16::MAX.
F32AsU16(x) ==
    IF x.m = 0 THEN 0
    ELSE IF x.e >= 0 THEN 65535
    ELSE IF 0 - x.e > 30 THEN 0
    ELSE LET v == x.m \div Pow2(0 - x.e) IN
         IF v > 65535 THEN 65535 ELSE v

\* scale_mouse_coords(column, row, term_size), for a size the division is
\* defined on.
scale_mouse_coords(column, row, width, height) ==
    LET actual_height_in_pixels == height \div 2 IN
      [x |-> F32AsU16(F32Mul(F32Div(column, width), GAME_WIDTH)),
       y |-> F32AsU16(F32Mul(F32Div(row, actual_height_in_pixels),
                             GAME_HEIGHT))]

\* Mutant of calculate_relative_movement: the movement is not scaled.
RelativeMovementUnscaled(current_x, current_y, last_x, last_y) ==
    [dx |-> current_x - last_x, dy |-> current_y - last_y]

\* calculate_relative_movement(current_x, current_y, last_x, last_y)
calculate_relative_movement(current_x, current_y, last_x, last_y) ==
    [dx |-> (current_x - last_x) * 5, dy |-> (current_y - last_y) * 5]

\* The arguments of a mouse command: the two numbers' to_string().
MouseArgs(a, b) == ToString(a) \o " " \o ToString(b)

\* The match on mouse_event.kind.
MouseKindArm(kind, cmds) ==
    IF kind = "Down(Left)" THEN RunXdotool(cmds, "mousedown", "1")
    ELSE IF kind = "Up(Left)" THEN RunXdotool(cmds, "mouseup", "1")
    ELSE cmds

\* if last_mouse_x > 0 && last_mouse_y > 0
LastMouseSet(t) == t.last_mouse_x > 0 /\ t.last_mouse_y > 0

\* The InputEvent::Mouse arm, with the terminal size read under its lock.
MouseArm(ev, t) ==
    LET scaled == scale_mouse_coords(ev.column, ev.row, target_width,
                                   target_height)
        d == calculate_relative_movement(scaled.x, scaled.y, t.last_mouse_x,
                                         t.last_mouse_y)
        moved ==
            IF t.inventory_open
            THEN RunXdotool(t.commands, "mousemove", MouseArgs(scaled.x, scaled.y))
            ELSE IF LastMouseSet(t) /\ (d.dx # 0 \/ d.dy # 0)
            THEN RunXdotool(t.commands, "mousemove_relative",
                            "-- " \o MouseArgs(d.dx, d.dy))
            ELSE t.commands IN
      [t EXCEPT !.commands = MouseKindArm(ev.code, moved),
                !.last_mouse_x = scaled.x,
                !.last_mouse_y = scaled.y,
                !.mouse_events = t.mouse_events + 1]

\* The match on the received event.
EventArm(ev, t) ==
    IF ev.type = "Key" THEN KeyCodeArm(ev, t) ELSE MouseArm(ev, t)

\* The release sweep over the keys in the order the table iterates them.
RECURSIVE Sweep(_, _)
Sweep(order, t) ==
    IF order = <<>> THEN t
    ELSE LET key == Head(order) IN
         IF t.pressed[key] /\ t.release_in[key] = 0
         THEN Sweep(Tail(order),
                    [t EXCEPT !.pressed[key] = FALSE,
                              !.commands = RunXdotool(t.commands, "keyup", key)])
         ELSE Sweep(Tail(order), t)

\* The iteration orders a HashMap over the four keys can have.
KeyOrders ==
    {o \in [1 .. Cardinality(WasdKeys) -> WasdKeys] :
        \A i, j \in DOMAIN o : i # j => o[i] # o[j]}

Elapse(r, n) == [c \in WasdKeys |-> IF r[c] > n THEN r[c] - n ELSE 0]

KeyTable == [commands |-> commands,
             inventory_open |-> inventory_open,
             last_mouse_x |-> last_mouse_x,
             last_mouse_y |-> last_mouse_y,
             mouse_events |-> mouse_events,
             pressed |-> pressed,
             release_in |-> release_in]

\* The pool as constructed, with no request made through it.
PoolIdle ==
    /\ resource_count = MaxResourceCount
    /\ available_resources = Range(resource_count)
    /\ pending_requests = <<>>
    /\ request_rx = <<>>
    /\ release_rx = <<>>
    /\ next_id = 0
    /\ cancel = [r \in Requests |-> FALSE]
    /\ response = [r \in Requests |-> "none"]
    /\ status = [r \in Requests |-> <<>>]
    /\ status_rx_open = [r \in Requests |-> FALSE]
    /\ session = [r \in Requests |-> "none"]
    /\ last_turn = [after_release |-> FALSE,
                    free_empty |-> FALSE,
                    op |-> "none",
                    req |-> 0,
                    slot |-> 0,
                    wait_empty |-> FALSE]

\* A session granted slot s has been started on display ":{s+1}".
\* minecraft::run has launched the game and is joining the stage threads.
LifeServing ==
    /\ task_pc = "join"
    /\ game = "alive"
    /\ mon_pc = "watch"
    /\ channel_closed = FALSE

XdoInit ==
    /\ PoolIdle
    /\ EncIdle
    /\ GlueIdle
    /\ RenderIdle
    /\ LifeServing
    /\ \E slot \in 0 .. (MaxResourceCount - 1) : xorg_display = slot + 1
    /\ running = TRUE
    /\ input_rx = <<>>
    /\ input_tx_open = TRUE
    /\ events_sent = 0
    /\ xdo_pc = "loop"
    /\ pressed = [c \in WasdKeys |-> FALSE]
    /\ release_in = [c \in WasdKeys |-> 0]
    /\ commands = <<>>
    /\ MouseIdle

\* The input capture stage sends a decoded event.
SendEvent(c) ==
    /\ input_tx_open
    /\ events_sent < MaxEvents
    /\ input_rx' = Append(input_rx, c)
    /\ events_sent' = events_sent + 1
    /\ UNCHANGED <<notXdo, xorg_display, running, input_tx_open, xdo_pc,
                   pressed, release_in, commands,
                   mouseVars>>

\* The input capture stage returns and drops input_event_tx.
DropInputTx ==
    /\ input_tx_open
    /\ input_tx_open' = FALSE
    /\ UNCHANGED <<notXdo, xorg_display, running, input_rx, events_sent,
                   xdo_pc, pressed, release_in, commands,
                   mouseVars>>

\* channel_close (or any other holder of the flag) clears running.
ClearRunning ==
    /\ running
    /\ running' = FALSE
    /\ UNCHANGED <<notXdo, xorg_display, input_rx, input_tx_open,
                   events_sent, xdo_pc, pressed, release_in, commands,
                   mouseVars>>

\* Time passes.
Tick ==
    /\ \E c \in WasdKeys : release_in[c] > 0
    /\ release_in' = Elapse(release_in, 1)
    /\ UNCHANGED <<notXdo, xorg_display, running, input_rx, input_tx_open,
                   events_sent, xdo_pc, pressed, commands,
                   mouseVars>>

\* One iteration that receives an event: the match, then the release sweep.
XdoRecvEvent ==
    /\ xdo_pc = "loop"
    /\ running
    /\ input_rx # <<>>
    /\ \E t \in LET matched == EventArm(Head(input_rx), KeyTable) IN
                  {Sweep(order, matched) : order \in KeyOrders} :
           /\ pressed' = t.pressed
           /\ release_in' = t.release_in
           /\ commands' = t.commands
           /\ inventory_open' = t.inventory_open
           /\ last_mouse_x' = t.last_mouse_x
           /\ last_mouse_y' = t.last_mouse_y
           /\ mouse_events' = t.mouse_events
    /\ input_rx' = Tail(input_rx)
    /\ UNCHANGED <<notXdo, xorg_display, running, input_tx_open,
                   events_sent, xdo_pc>>

\* One iteration whose receive times out: `continue`, back to the loop head.
XdoTimeout ==
    /\ xdo_pc = "loop"
    /\ running
    /\ input_rx = <<>>
    /\ input_tx_open
    /\ release_in' = Elapse(release_in, TimeoutTicks)
    /\ UNCHANGED <<notXdo, xorg_display, running, input_rx, input_tx_open,
                   events_sent, xdo_pc, pressed, commands,
                   mouseVars>>

\* The receive reports Disconnected: `break`.
XdoDisconnected ==
    /\ xdo_pc = "loop"
    /\ running
    /\ input_rx = <<>>
    /\ ~input_tx_open
    /\ xdo_pc' = "done"
    /\ UNCHANGED <<notXdo, xorg_display, running, input_rx, input_tx_open,
                   events_sent, pressed, release_in, commands,
                   mouseVars>>

\* The loop head reads running = false.
XdoStop ==
    /\ xdo_pc = "loop"
    /\ ~running
    /\ xdo_pc' = "done"
    /\ UNCHANGED <<notXdo, xorg_display, running, input_rx, input_tx_open,
                   events_sent, pressed, release_in, commands,
                   mouseVars>>

XdoNext ==
    \/ \E c \in KeyChars : SendEvent(CharEvent(c))
    \/ DropInputTx
    \/ ClearRunning
    \/ Tick
    \/ XdoRecvEvent
    \/ XdoTimeout
    \/ XdoDisconnected
    \/ XdoStop

XdoSpec == XdoInit /\ [][XdoNext]_vars

\* The commands issued for key c, in order.
RECURSIVE ForKey(_, _)
ForKey(cmds, c) ==
    IF cmds = <<>> THEN <<>>
    ELSE IF Head(cmds).arg = c /\ Head(cmds).cmd \in {"keydown", "keyup"}
         THEN <<Head(cmds).cmd>> \o ForKey(Tail(cmds), c)
         ELSE ForKey(Tail(cmds), c)

\* A keydown c has been issued and no keyup c after it.
HeldDown(c) ==
    LET k == ForKey(commands, c) IN k # <<>> /\ Last(k) = "keydown"

(***************************************************************************)
(* C12: for every movement key c, a keydown c is eventually followed by a  *)
(* keyup c, also when the translator loop stops because running clears or  *)
(* the event channel disconnects.  The loop issues nothing after it has    *)
(* stopped, so at that point no key may still be held down.                *)
(***************************************************************************)
C12_KeyupFollowsKeydown ==
    xdo_pc = "done" => \A c \in WasdKeys : ~HeldDown(c)

(***************************************************************************)
(* C13: for every movement key c the keydown c and keyup c commands        *)
(* strictly alternate, starting with keydown; pressed[c] holds exactly     *)
(* when the last command issued for c was keydown; and a Char c received   *)
(* while c is pressed issues no command for c, leaves c pressed and only   *)
(* moves its release deadline.                                             *)
(***************************************************************************)
Alternates(k) ==
    \A i \in 1 .. Len(k) : k[i] = IF i % 2 = 1 THEN "keydown" ELSE "keyup"

RepeatedChar(c) ==
    /\ xdo_pc = "loop" /\ running
    /\ input_rx # <<>> /\ Head(input_rx) = CharEvent(c)
    /\ input_rx' = Tail(input_rx)
    /\ pressed[c]

C13_KeydownKeyupAlternate ==
    /\ [](\A c \in WasdKeys :
            /\ Alternates(ForKey(commands, c))
            /\ pressed[c] <=> HeldDown(c))
    /\ [][\A c \in WasdKeys :
            RepeatedChar(c) =>
              /\ ForKey(commands', c) = ForKey(commands, c)
              /\ pressed'[c]
              /\ release_in'[c] = HoldTicks]_vars

\* Two events were handled and only one command, a keydown, was issued: the
\* second event was the same Char, received while the key was pressed.
C13_Witness ==
    /\ events_sent = 2
    /\ input_rx = <<>>
    /\ Len(commands) = 1
    /\ commands[1].cmd = "keydown"
    /\ pressed[commands[1].arg]
    /\ release_in[commands[1].arg] = HoldTicks

(***************************************************************************)
(* C14: every synthetic-input invocation of a session that holds slot s    *)
(* runs with DISPLAY equal to the session's display ":{s+1}".              *)
(***************************************************************************)
C14_InputOnOwnDisplay ==
    \A i \in 1 .. Len(commands) : commands[i].display = xorg_display

(***************************************************************************)
(* The outbound chain of one session: render::render_x11_window (the       *)
(* capture driver), the capture children, one render_byte_stream thread    *)
(* per child, the sync_channel(1) and display_render_thread (the sink).    *)
(* A frame is named by its capture serial number: the n-th frame grabbed   *)
(* from the display, whichever child grabbed it.                           *)
(***************************************************************************)
\* mpsc::sync_channel(1)
CompletedFramesBound == 1

\* Column widths of the PTY requests and window changes of the model.
PtyWidths == {80, 132}

get_height_from_width(width) == (((width * 10) \div 16 + 1) \div 2) * 2

\* frame_to_rgb_ansi applied to a frame, with the trailing reset.
Painted(frame) == [ansi |-> frame]

\* Mutant of LatestFrame: the oldest frame of the queue.
OldestFrame(queue) == Head(queue)

\* frame_queue.pop_back()
LatestFrame(queue) == Last(queue)

\* One crossterm command, or the bytes of a painted frame, as written to the
\* session writer.
Command(name) == [ansi |-> 0, cmd |-> name]
FrameBytes(frame) == [ansi |-> frame.ansi, cmd |-> "frame"]

\* SessionWriter::write: buffer.extend_from_slice(buf)
SessionWrite(buf, item) == Append(buf, item)

\* execute!(writer, EnableMouseCapture, EnterAlternateScreen, Hide) up to its
\* flush.
SinkSetup(buf) ==
    SessionWrite(SessionWrite(SessionWrite(buf,
        Command("EnableMouseCapture")),
        Command("EnterAlternateScreen")),
        Command("Hide"))

\* execute!(writer, DisableMouseCapture, LeaveAlternateScreen, Show) up to
\* its flush.
SinkCleanup(buf) ==
    SessionWrite(SessionWrite(SessionWrite(buf,
        Command("DisableMouseCapture")),
        Command("LeaveAlternateScreen")),
        Command("Show"))

\* Mutant of FrameWrites: the synchronized update is ended before the frame
\* is written.
FrameWritesUnbracketed(buf, frame) ==
    SessionWrite(SessionWrite(SessionWrite(SessionWrite(buf,
        Command("BeginSynchronizedUpdate")),
        Command("EndSynchronizedUpdate")),
        FrameBytes(frame)),
        Command("Clear(FromCursorDown)"))

\* The Ok(frame) arm of display_render_thread up to its flush.
FrameWrites(buf, frame) ==
    SessionWrite(SessionWrite(SessionWrite(SessionWrite(buf,
        Command("BeginSynchronizedUpdate")),
        FrameBytes(frame)),
        Command("Clear(FromCursorDown)")),
        Command("EndSynchronizedUpdate"))

RenderInit ==
    /\ PoolIdle
    /\ EncIdle
    /\ GlueIdle
    /\ LifeServing
    /\ xorg_display = 1
    /\ running = TRUE
    /\ input_rx = <<>>
    /\ input_tx_open = TRUE
    /\ events_sent = 0
    /\ xdo_pc = "loop"
    /\ pressed = [c \in WasdKeys |-> FALSE]
    /\ release_in = [c \in WasdKeys |-> 0]
    /\ commands = <<>>
    /\ MouseIdle
    /\ target_width = InitialTargetWidth
    /\ target_height = InitialTargetHeight
    /\ drv_pc = "loop"
    /\ last_width = 0
    /\ last_height = 0
    /\ current_process = 0
    /\ children = 0
    /\ child_alive = [t \in Children |-> FALSE]
    /\ pipe = [t \in Children |-> <<>>]
    /\ next_serial = 0
    /\ rt_pc = [t \in Children |-> "none"]
    /\ frame_queue = [t \in Children |-> <<>>]
    /\ rt_output = [t \in Children |-> NoOutput]
    /\ completed_frames = <<>>
    /\ sink_pc = "loop"
    /\ sink_seen = <<>>
    /\ buffer = <<>>
    /\ session_data = <<SinkSetup(<<>>)>>
    /\ size_kept = FALSE

\* pty_request / window_change_request: set_terminal_size(col_width).
SetTerminalSize(width) ==
    /\ target_width' = width
    /\ target_height' = get_height_from_width(width)
    /\ size_kept' = (\/ size_kept
                     \/ /\ current_process # 0
                        /\ target_width' = target_width
                        /\ target_height' = target_height)
    /\ UNCHANGED <<notRender, sessVars, drv_pc, last_width, last_height,
                   current_process, children, child_alive, pipe, next_serial,
                   rt_pc, frame_queue, rt_output, completed_frames, sink_pc,
                   sink_seen,
                   buffer, session_data>>

\* Mutant of SizeChanged: the driver restarts on every iteration.
SizeAlwaysChanged == TRUE

\* if target_width != last_width || target_height != last_height
SizeChanged == target_width # last_width \/ target_height # last_height

\* Mutant of KillCurrent: the child held is dropped without kill and wait.
KillNothing == child_alive

\* process.kill(); process.wait() on the child held, if any.
KillCurrent == [t \in Children |-> child_alive[t] /\ t # current_process]

\* A driver iteration that finds the dimensions changed: the child held is
\* killed, a new one is spawned and a render thread is started on its stdout.
DriverRestart ==
    /\ drv_pc = "loop" /\ running
    /\ SizeChanged
    /\ children < MaxChildren
    /\ children' = children + 1
    /\ child_alive' = [KillCurrent EXCEPT ![children'] = TRUE]
    /\ current_process' = children'
    /\ rt_pc' = [rt_pc EXCEPT ![children'] = "loop"]
    /\ last_width' = target_width
    /\ last_height' = target_height
    /\ UNCHANGED <<notRender, sessVars, target_width, target_height, drv_pc,
                   pipe, next_serial, frame_queue, rt_output,
                   completed_frames, sink_pc, sink_seen,
                   buffer, session_data, size_kept>>

\* The same iteration when Command::spawn fails: `?` returns the error.
DriverSpawnFails ==
    /\ drv_pc = "loop" /\ running
    /\ SizeChanged
    /\ child_alive' = KillCurrent
    /\ current_process' = 0
    /\ drv_pc' = "failed"
    /\ UNCHANGED <<notRender, sessVars, target_width, target_height,
                   last_width, last_height, children, pipe, next_serial,
                   rt_pc, frame_queue, rt_output, completed_frames, sink_pc,
                   sink_seen,
                   buffer, session_data, size_kept>>

\* A driver iteration that finds the dimensions unchanged.
DriverPoll ==
    /\ drv_pc = "loop" /\ running
    /\ ~SizeChanged
    /\ UNCHANGED vars

\* The driver reads running = false, kills the child held and returns.
DriverStop ==
    /\ drv_pc = "loop" /\ ~running
    /\ child_alive' = KillCurrent
    /\ drv_pc' = "done"
    /\ UNCHANGED <<notRender, sessVars, target_width, target_height,
                   last_width, last_height, current_process, children, pipe,
                   next_serial, rt_pc, frame_queue, rt_output,
                   completed_frames, sink_pc, sink_seen,
                   buffer, session_data, size_kept>>

\* Capture child t grabs the next frame of the display and writes it.
CaptureFrame(t) ==
    /\ child_alive[t]
    /\ next_serial < MaxFrames
    /\ next_serial' = next_serial + 1
    /\ pipe' = [pipe EXCEPT ![t] = Append(@, next_serial')]
    /\ UNCHANGED <<notRender, sessVars, target_width, target_height, drv_pc,
                   last_width, last_height, current_process, children,
                   child_alive, rt_pc, frame_queue, rt_output,
                   completed_frames, sink_pc, sink_seen,
                   buffer, session_data, size_kept>>

\* Render thread t reads until WouldBlock or EOF and queues every complete
\* frame read.
RenderDrain(t) ==
    /\ rt_pc[t] = "loop" /\ running
    /\ frame_queue' = [frame_queue EXCEPT ![t] = @ \o pipe[t]]
    /\ pipe' = [pipe EXCEPT ![t] = <<>>]
    /\ rt_pc' = [rt_pc EXCEPT ![t] = "decide"]
    /\ UNCHANGED <<notRender, sessVars, target_width, target_height, drv_pc,
                   last_width, last_height, current_process, children,
                   child_alive, next_serial, rt_output, completed_frames,
                   sink_pc, sink_seen,
                   buffer, session_data, size_kept>>

\* The decision of the iteration: the latest frame is popped and painted,
\* the rest of the queue is cleared; with no frame the thread goes round.
RenderDecide(t) ==
    /\ rt_pc[t] = "decide"
    /\ IF frame_queue[t] # <<>>
       THEN /\ rt_output' = [rt_output EXCEPT
                               ![t] = Painted(LatestFrame(frame_queue[t]))]
            /\ frame_queue' = [frame_queue EXCEPT ![t] = <<>>]
            /\ rt_pc' = [rt_pc EXCEPT ![t] = "send"]
       ELSE /\ rt_pc' = [rt_pc EXCEPT ![t] = "loop"]
            /\ UNCHANGED <<rt_output, frame_queue>>
    /\ UNCHANGED <<notRender, sessVars, target_width, target_height, drv_pc,
                   last_width, last_height, current_process, children,
                   child_alive, pipe, next_serial, completed_frames, sink_pc,
                   sink_seen,
                   buffer, session_data, size_kept>>

\* render_tx.send(output) returns once the channel has room.
RenderSend(t) ==
    /\ rt_pc[t] = "send"
    /\ sink_pc = "loop"
    /\ Len(completed_frames) < CompletedFramesBound
    /\ completed_frames' = Append(completed_frames, rt_output[t])
    /\ rt_output' = [rt_output EXCEPT ![t] = NoOutput]
    /\ rt_pc' = [rt_pc EXCEPT ![t] = "loop"]
    /\ UNCHANGED <<notRender, sessVars, target_width, target_height, drv_pc,
                   last_width, last_height, current_process, children,
                   child_alive, pipe, next_serial, frame_queue, sink_pc,
                   sink_seen,
                   buffer, session_data, size_kept>>

\* render_tx.send(output) fails: the receiver was dropped; `break`.
RenderSendFails(t) ==
    /\ rt_pc[t] = "send"
    /\ sink_pc # "loop"
    /\ rt_output' = [rt_output EXCEPT ![t] = NoOutput]
    /\ rt_pc' = [rt_pc EXCEPT ![t] = "done"]
    /\ UNCHANGED <<notRender, sessVars, target_width, target_height, drv_pc,
                   last_width, last_height, current_process, children,
                   child_alive, pipe, next_serial, frame_queue,
                   completed_frames, sink_pc, sink_seen,
                   buffer, session_data, size_kept>>

\* Render thread t reads running = false at the loop head.
RenderStop(t) ==
    /\ rt_pc[t] = "loop" /\ ~running
    /\ rt_pc' = [rt_pc EXCEPT ![t] = "done"]
    /\ UNCHANGED <<notRender, sessVars, target_width, target_height, drv_pc,
                   last_width, last_height, current_process, children,
                   child_alive, pipe, next_serial, frame_queue, rt_output,
                   completed_frames, sink_pc, sink_seen,
                   buffer, session_data, size_kept>>

\* Some sender of the channel is still held: by the driver or a render thread.
SenderHeld ==
    \/ drv_pc \in {"idle", "loop"}
    \/ \E t \in Children : rt_pc[t] \in {"loop", "decide", "send"}

\* The sink receives a painted frame and writes it out.
SinkRecv ==
    /\ sink_pc = "loop"
    /\ completed_frames # <<>>
    /\ sink_seen' = Append(sink_seen, Head(completed_frames))
    /\ completed_frames' = Tail(completed_frames)
    /\ session_data' = Append(session_data,
                              FrameWrites(buffer, Head(completed_frames)))
    /\ buffer' = <<>>
    /\ UNCHANGED <<notRender, sessVars, target_width, target_height, drv_pc,
                   last_width, last_height, current_process, children,
                   child_alive, pipe, next_serial, rt_pc, frame_queue,
                   rt_output, sink_pc,
                   size_kept>>

\* A write or flush of the sink fails: `?` returns the error and the
\* receiver is dropped with whatever the channel holds.
SinkFails ==
    /\ sink_pc = "loop"
    /\ sink_pc' = "failed"
    /\ completed_frames' = <<>>
    /\ buffer' = IF completed_frames # <<>>
                 THEN FrameWrites(buffer, Head(completed_frames))
                 ELSE buffer
    /\ UNCHANGED <<notRender, sessVars, target_width, target_height, drv_pc,
                   last_width, last_height, current_process, children,
                   child_alive, pipe, next_serial, rt_pc, frame_queue,
                   rt_output, sink_seen,
                   session_data, size_kept>>

\* recv_timeout reports Disconnected: every sender is gone; `break`.
SinkDisconnected ==
    /\ sink_pc = "loop"
    /\ completed_frames = <<>>
    /\ ~SenderHeld
    /\ sink_pc' = "done"
    /\ session_data' = Append(session_data, SinkCleanup(buffer))
    /\ buffer' = <<>>
    /\ UNCHANGED <<notRender, sessVars, target_width, target_height, drv_pc,
                   last_width, last_height, current_process, children,
                   child_alive, pipe, next_serial, rt_pc, frame_queue,
                   rt_output, completed_frames, sink_seen,
                   size_kept>>

\* The serve phase: the session keeps running and no stage fails.
RenderNext ==
    \/ \E width \in PtyWidths : SetTerminalSize(width)
    \/ DriverRestart
    \/ DriverPoll
    \/ \E t \in Children : CaptureFrame(t)
    \/ \E t \in Children : RenderDrain(t)
    \/ \E t \in Children : RenderDecide(t)
    \/ \E t \in Children : RenderSend(t)
    \/ SinkRecv

RenderSpec == RenderInit /\ [][RenderNext]_vars

Elems(s) == {s[i] : i \in 1 .. Len(s)}

\* The frames still somewhere between a capture child and the sink.
FramesLive ==
    UNION {Elems(pipe[t]) \cup Elems(frame_queue[t]) : t \in Children}
    \cup {rt_output[t].ansi : t \in {u \in Children : rt_output[u] # NoOutput}}
    \cup {completed_frames[i].ansi : i \in 1 .. Len(completed_frames)}

\* Render thread t takes its decision with at least one frame queued.
DecisionStep(t) ==
    /\ rt_pc[t] = "decide"
    /\ rt_pc'[t] # "decide"
    /\ frame_queue[t] # <<>>

(***************************************************************************)
(* C15: at each decision point of a render loop whose holding queue has    *)
(* k >= 1 complete frames, the newest one (the last extracted from the     *)
(* capture stream) is painted and is what the following send hands to the  *)
(* sink, the k-1 others are dropped unpainted, and the queue is empty      *)
(* afterwards.                                                             *)
(***************************************************************************)
C15_NewestFrameOnly ==
    /\ [][\A t \in Children :
            DecisionStep(t) =>
              LET queue == frame_queue[t]
                  newest == queue[Len(queue)] IN
                /\ \A i \in 1 .. Len(queue) : queue[i] <= newest
                /\ rt_output'[t] = Painted(newest)
                /\ rt_pc'[t] = "send"
                /\ frame_queue'[t] = <<>>
                /\ \A i \in 1 .. (Len(queue) - 1) :
                     /\ queue[i] \notin FramesLive'
                     /\ Painted(queue[i]) \notin Elems(sink_seen')]_vars
    /\ [][\A t \in Children :
            (rt_pc[t] = "send" /\ rt_pc'[t] # "send") =>
              completed_frames' = Append(completed_frames, rt_output[t])]_vars

\* Four frames were captured by one child; the sink saw frame 1 and then
\* frame 4, and frames 2 and 3 are nowhere: they were dropped.
C15_Witness ==
    /\ children = 1
    /\ next_serial = 4
    /\ sink_seen = <<Painted(1), Painted(4)>>
    /\ FramesLive = {}

(***************************************************************************)
(* C16: the sink receives painted frames in capture order: it never        *)
(* receives a frame captured earlier than one it has already received,     *)
(* also across a resize that starts a new render thread while an older     *)
(* one still has frames to deliver.                                        *)
(***************************************************************************)
C16_CaptureOrderAtSink ==
    \A i, j \in 1 .. Len(sink_seen) :
        i < j => sink_seen[i].ansi < sink_seen[j].ansi

(***************************************************************************)
(* The life of one session that was granted a slot: the task spawned by    *)
(* handle_session_background (sshng.rs 175-187) calls minecraft::run,      *)
(* which launches the game with a detached monitor thread, spawns the      *)
(* stage threads and joins them; the task then closes the channel and      *)
(* releases the slot.                                                      *)
(***************************************************************************)
\* Number of frames captured in the behaviours of the session's life.
MaxLifeFrames == 1

\* resource_id of the Success received: xorg_display is ":{resource_id+1}".
GrantedResource == xorg_display - 1

\* Mutant of CleanupReleases: the handler's cleanup releases the slot the
\* session was granted.
CleanupReleasesGranted(rel, h) == Append(rel, GrantedResource)

\* cleanup_resources: `if let Some(resource) = self.my_x_session.take()
\* { self.allocator.release(resource) }` on release channel contents rel.
CleanupReleases(rel, h) ==
    IF my_x_session[h] = {} THEN rel
    ELSE Append(rel, CHOOSE resource \in my_x_session[h] : TRUE)

\* Drop of the handler russh holds for the connection (the client has gone):
\* cleanup_resources stores false into running and releases my_x_session.
ConnectionDrop ==
    /\ "connection" \notin dropped
    /\ dropped' = dropped \cup {"connection"}
    /\ running' = FALSE
    /\ release_rx' = CleanupReleases(release_rx, "connection")
    /\ my_x_session' = [my_x_session EXCEPT !["connection"] = {}]
    /\ UNCHANGED <<resource_count, available_resources, pending_requests,
                   request_rx, next_id, cancel, response, status,
                   status_rx_open, session, last_turn, xdoVars, renderVars,
                   lifeVars, encVars, statuses_read, allocVars, readerVars,
                   xorg_display>>

\* The status stream delivered Success(slot): the task is spawned.
LifeInit ==
    /\ PoolIdle
    /\ EncIdle
    /\ GlueIdle
    /\ \E slot \in 0 .. (MaxResourceCount - 1) : xorg_display = slot + 1
    /\ running = TRUE
    /\ TranslatorIdle
    /\ RenderIdle
    /\ task_pc = "launch"
    /\ game = "none"
    /\ mon_pc = "none"
    /\ channel_closed = FALSE

\* run_minecraft spawns the game and its monitor thread; run then creates
\* the channels and spawns the four stage threads it will join.
TaskLaunch ==
    /\ task_pc = "launch"
    /\ game' = "alive"
    /\ mon_pc' = "watch"
    /\ drv_pc' = "loop"
    /\ sink_pc' = "loop"
    /\ session_data' = Append(session_data, SinkSetup(buffer))
    /\ input_tx_open' = TRUE
    /\ xdo_pc' = "loop"
    /\ task_pc' = "join"
    /\ UNCHANGED <<poolVars, sessVars, encVars, glueVars, channel_closed, input_rx,
                   events_sent,
                   pressed, release_in, commands, target_width, target_height,
                   last_width, last_height, current_process, children,
                   child_alive, pipe, next_serial, rt_pc, frame_queue,
                   rt_output, completed_frames, sink_seen,
                   buffer, size_kept,
                   mouseVars>>

\* cmd.spawn()? fails: run returns the error, unwrap() panics in the task;
\* unwinding drops the session handler, whose Drop clears running.
TaskLaunchFails ==
    /\ task_pc = "launch"
    /\ task_pc' = "panicked"
    /\ running' = FALSE
    /\ release_rx' = CleanupReleases(release_rx, "task")
    /\ my_x_session' = [my_x_session EXCEPT !["task"] = {}]
    /\ dropped' = dropped \cup {"task"}
    /\ UNCHANGED <<resource_count, available_resources, pending_requests,
                   request_rx, next_id, cancel, response, status,
                   status_rx_open, session, last_turn, xdoVars, renderVars,
                   encVars, statuses_read, allocVars, readerVars,
                   xorg_display, game, mon_pc,
                   channel_closed>>

\* The four threads run joins: driver, sink, input capture, translator.
JoinedThreadsDone ==
    /\ drv_pc \in {"done", "failed"}
    /\ sink_pc \in {"done", "failed"}
    /\ ~input_tx_open
    /\ xdo_pc = "done"

\* Every child.join() has returned: run returns Ok(()).
TaskJoin ==
    /\ task_pc = "join"
    /\ JoinedThreadsDone
    /\ task_pc' = "close"
    /\ UNCHANGED <<notLife, sessVars, game, mon_pc, channel_closed>>

\* session_handle.close(channel_id)
TaskClose ==
    /\ task_pc = "close"
    /\ channel_closed' = TRUE
    /\ task_pc' = "release"
    /\ UNCHANGED <<notLife, sessVars, game, mon_pc>>

\* self.allocator.release(resource_id); the task ends and drops the session
\* handler, whose Drop clears running.
TaskRelease ==
    /\ task_pc = "release"
    /\ release_rx' = CleanupReleases(Append(release_rx, GrantedResource), "task")
    /\ my_x_session' = [my_x_session EXCEPT !["task"] = {}]
    /\ dropped' = dropped \cup {"task"}
    /\ task_pc' = "end"
    /\ running' = FALSE
    /\ UNCHANGED <<resource_count, available_resources, pending_requests,
                   request_rx, next_id, cancel, response, status,
                   status_rx_open, session, last_turn, xdoVars, renderVars,
                   encVars, statuses_read, allocVars, readerVars,
                   xorg_display, game, mon_pc,
                   channel_closed>>

\* The game process exits.
GameExits ==
    /\ game = "alive"
    /\ game' = "exited"
    /\ UNCHANGED <<notLife, sessVars, task_pc, mon_pc, channel_closed>>

\* Mutant of MonitorLeavesLoop: the monitor does not poll the game with
\* try_wait; its loop ends only when running is false.
MonitorLeavesLoopOnStop ==
    /\ mon_pc = "watch"
    /\ ~running
    /\ mon_pc' = "shutdown"
    /\ UNCHANGED <<notLife, sessVars, task_pc, game, channel_closed>>

\* The monitor loop ends: running is false, or try_wait reports the exit.
MonitorLeavesLoop ==
    /\ mon_pc = "watch"
    /\ ~running \/ game = "exited"
    /\ mon_pc' = "shutdown"
    /\ UNCHANGED <<notLife, sessVars, task_pc, game, channel_closed>>

\* After the loop: running is set to false; a game still running is sent
\* SIGTERM.
MonitorShutdown ==
    /\ mon_pc = "shutdown"
    /\ running' = FALSE
    /\ mon_pc' = IF game = "alive" THEN "term" ELSE "done"
    /\ UNCHANGED <<notLife, xorg_display, task_pc, game, channel_closed>>

\* The wait after SIGTERM ends: the game has exited or is killed.
MonitorReaps ==
    /\ mon_pc = "term"
    /\ game' = "exited"
    /\ mon_pc' = "done"
    /\ UNCHANGED <<notLife, sessVars, task_pc, channel_closed>>

\* The input capture thread reads running = false and returns.
CaptureInputStops ==
    /\ input_tx_open
    /\ ~running
    /\ input_tx_open' = FALSE
    /\ UNCHANGED <<notXdo, sessVars, input_rx, events_sent, xdo_pc, pressed,
                   release_in, commands,
                   mouseVars>>

\* Mutant of CaptureInputCtrlC: Ctrl+C is forwarded as any other key event.
CaptureInputCtrlCForwarded ==
    /\ input_tx_open
    /\ running
    /\ events_sent < MaxEvents
    /\ input_rx' = Append(input_rx, CharEvent("c"))
    /\ events_sent' = events_sent + 1
    /\ UNCHANGED <<notXdo, sessVars, input_tx_open, xdo_pc, pressed,
                   release_in, commands, mouseVars>>

\* The input capture thread decodes Ctrl+C: it clears running and returns.
CaptureInputCtrlC ==
    /\ input_tx_open
    /\ running
    /\ running' = FALSE
    /\ input_tx_open' = FALSE
    /\ UNCHANGED <<notXdo, xorg_display, input_rx, events_sent, xdo_pc,
                   pressed, release_in, commands,
                   mouseVars>>

LifeNext ==
    \/ TaskLaunch
    \/ TaskLaunchFails
    \/ TaskJoin
    \/ TaskClose
    \/ TaskRelease
    \/ GameExits
    \/ MonitorLeavesLoop
    \/ MonitorShutdown
    \/ MonitorReaps
    \/ ClearRunning
    \/ \E width \in PtyWidths : SetTerminalSize(width) /\ ~size_kept'
    \/ DriverRestart
    \/ DriverSpawnFails
    \/ DriverPoll
    \/ DriverStop
    \/ \E t \in Children : CaptureFrame(t) /\ next_serial' <= MaxLifeFrames
    \/ \E t \in Children : RenderDrain(t)
    \/ \E t \in Children : RenderDecide(t)
    \/ \E t \in Children : RenderSend(t)
    \/ \E t \in Children : RenderSendFails(t)
    \/ \E t \in Children : RenderStop(t)
    \/ SinkRecv
    \/ SinkFails
    \/ SinkDisconnected
    \/ DropInputTx
    \/ CaptureInputStops
    \/ CaptureInputCtrlC
    \/ XdoDisconnected
    \/ XdoStop

LifeSpec == LifeInit /\ [][LifeNext]_vars

(***************************************************************************)
(* Fairness: every thread and the task keep being scheduled, so a step     *)
(* they can take is eventually taken.  Nothing is assumed of the client    *)
(* (channel close, resize, Ctrl+C, end of input), of the game exiting by   *)
(* itself, of the capture children producing frames, or of failures.       *)
(***************************************************************************)
LifeFairSpec ==
    /\ LifeSpec
    /\ WF_vars(TaskLaunch \/ TaskLaunchFails)
    /\ WF_vars(TaskJoin)
    /\ WF_vars(TaskClose)
    /\ WF_vars(TaskRelease)
    /\ WF_vars(MonitorLeavesLoop)
    /\ WF_vars(MonitorShutdown)
    /\ WF_vars(MonitorReaps)
    /\ WF_vars(DriverRestart \/ DriverSpawnFails)
    /\ WF_vars(DriverStop)
    /\ \A t \in Children :
         /\ WF_vars(RenderDrain(t))
         /\ WF_vars(RenderDecide(t))
         /\ WF_vars(RenderSend(t))
         /\ WF_vars(RenderSendFails(t))
         /\ WF_vars(RenderStop(t))
    /\ WF_vars(SinkRecv)
    /\ WF_vars(SinkDisconnected)
    /\ WF_vars(CaptureInputStops)
    /\ WF_vars(XdoDisconnected)
    /\ WF_vars(XdoStop)

\* The release of the granted slot has been sent to the pool.
SlotReleased == task_pc = "end"

\* The session was granted a slot and has not released it.
HoldsSlot == task_pc # "idle" /\ ~SlotReleased

\* minecraft::run has returned Ok(()).
RunReturned == task_pc \in {"close", "release", "end"}

\* No stage thread is running: the four joined ones and the render threads.
StageThreadsDone ==
    /\ drv_pc \in {"idle", "done", "failed"}
    /\ sink_pc \in {"idle", "done", "failed"}
    /\ ~input_tx_open
    /\ xdo_pc \in {"idle", "done"}
    /\ \A t \in Children : rt_pc[t] \in {"none", "done"}

(***************************************************************************)
(* C17: once running is cleared while the session holds a slot, every      *)
(* stage thread eventually terminates, minecraft::run returns and the      *)
(* slot is eventually released to the pool.                                *)
(***************************************************************************)
C17_StopLeadsToRelease ==
    (~running /\ HoldsSlot) ~> (StageThreadsDone /\ RunReturned /\ SlotReleased)

(***************************************************************************)
(* C18: when the slot is released to the pool, the game child and every    *)
(* capture child the session started on the slot's display have            *)
(* terminated.                                                             *)
(***************************************************************************)
C18_ChildrenGoneAtRelease ==
    SlotReleased => (game # "alive" /\ \A t \in Children : ~child_alive[t])

\* Some stage has exited on an error: the sink's write or flush failed, a
\* capture child could not be spawned, or the game could not be spawned.
StageExitedOnError ==
    \/ sink_pc = "failed"
    \/ drv_pc = "failed"
    \/ task_pc = "panicked"

(***************************************************************************)
(* C19: whenever a stage of the session exits on an error, running         *)
(* becomes false, the session ends, its slot is released and its channel   *)
(* is closed.                                                              *)
(***************************************************************************)
C19_ErrorEndsSession ==
    StageExitedOnError ~> (~running /\ SlotReleased /\ channel_closed)

(***************************************************************************)
(* The shared TerminalSize of a client: created by new_client and written  *)
(* by the PTY request and window-change handlers (sshng.rs 103-115,        *)
(* 139-145, 277-301).                                                      *)
(***************************************************************************)
\* Largest column count of a PTY request or window change in the model.
MaxCols == 120

\* new_client: the pool exists, no request was made, no stage runs.
SizeInit == PoolIdle /\ StagesIdle

\* pty_request(col_width, ...)
PtyRequest(col_width) == SetTerminalSize(col_width)

\* window_change_request(col_width, ...)
WindowChangeRequest(col_width) == SetTerminalSize(col_width)

SizeNext ==
    \/ \E col_width \in 0 .. MaxCols : PtyRequest(col_width)
    \/ \E col_width \in 0 .. MaxCols : WindowChangeRequest(col_width)

SizeSpec == SizeInit /\ [][SizeNext]_vars

\* n / d rounded to the nearest integer, a tie going to the even one.
RoundEven(n, d) ==
    LET q == n \div d
        r == n % d IN
      IF 2 * r < d THEN q
      ELSE IF 2 * r > d THEN q + 1
      ELSE IF q % 2 = 0 THEN q ELSE q + 1

(***************************************************************************)
(* C20: in every reachable state of a session, the initial one included,   *)
(* target_height = round_even(target_width * GAME_HEIGHT / GAME_WIDTH / 2) *)
(* * 2 for the configured native resolution of the game.                   *)
(***************************************************************************)
C20_TargetRowsFromNativeRatio ==
    target_height = RoundEven(target_width * GAME_HEIGHT, GAME_WIDTH * 2) * 2

\* render_byte_stream: let frame_size = height * width * 3
frame_size(height, width) == height * width * 3

\* A PTY request or a window change with cols >= 1 is handled in this step.
SizeRequestStep ==
    \E col_width \in 1 .. MaxCols :
        PtyRequest(col_width) \/ WindowChangeRequest(col_width)

(***************************************************************************)
(* C21: every PTY request or window change with cols >= 1 leaves a         *)
(* target_height that is a positive even integer; for 80 columns it is 50  *)
(* and one captured frame is 80 * 50 * 3 = 12000 bytes.                    *)
(***************************************************************************)
C21_RowsPositiveEven ==
    [][SizeRequestStep =>
          /\ target_height' > 0
          /\ target_height' % 2 = 0
          /\ (target_width' = 80 =>
                 /\ target_height' = 50
                 /\ frame_size(target_height', target_width') = 12000)]_vars

(***************************************************************************)
(* The capture driver and the sink under PTY requests and window changes   *)
(* (RenderSpec).                                                           *)
(***************************************************************************)
\* A capture child is killed or spawned, or a render thread is started.
CaptureRestarted ==
    \/ children' # children
    \/ current_process' # current_process
    \/ child_alive' # child_alive
    \/ \E t \in Children : rt_pc[t] = "none" /\ rt_pc'[t] # "none"

\* A PTY request or window change that leaves TerminalSize as it was.
SizeKeptStep ==
    /\ \E width \in PtyWidths :
         PtyRequest(width) \/ WindowChangeRequest(width)
    /\ target_width' = target_width
    /\ target_height' = target_height

(***************************************************************************)
(* C22: the capture child is killed or respawned, and a render thread is   *)
(* started, only in a step where the target size differs from the size    *)
(* the child held was started with (last_width, last_height); a PTY        *)
(* request or window change that leaves the target size unchanged kills    *)
(* and starts nothing, and enables no restart that was not enabled before. *)
(***************************************************************************)
C22_RestartOnlyOnSizeChange ==
    /\ [][CaptureRestarted =>
             (target_width # last_width \/ target_height # last_height)]_vars
    /\ [][SizeKeptStep =>
             /\ ~CaptureRestarted
             /\ UNCHANGED <<last_width, last_height>>
             /\ (ENABLED DriverRestart)' => ENABLED DriverRestart]_vars
    /\ [](current_process # 0 =>
             /\ child_alive[current_process]
             /\ rt_pc[current_process] # "none")

\* A request left the size as it was while the first child was held, and
\* that child, still the only one, went on to capture every frame.
C22_Witness ==
    /\ size_kept
    /\ children = 1
    /\ current_process = 1
    /\ child_alive[1]
    /\ target_width = last_width
    /\ target_height = last_height
    /\ next_serial = MaxFrames
    /\ Len(sink_seen) >= 1

\* The unit of one painted frame: the bracket around its bytes.
BracketedFrame(frame) ==
    <<Command("BeginSynchronizedUpdate"), FrameBytes(frame),
      Command("Clear(FromCursorDown)"), Command("EndSynchronizedUpdate")>>

(***************************************************************************)
(* C23: for every painted frame it receives the sink writes, in this       *)
(* order, BeginSynchronizedUpdate, the frame bytes, EraseFromCursorDown    *)
(* and EndSynchronizedUpdate, and then flushes: in the serve phase the     *)
(* n-th unit handed to the SSH channel after the set-up unit is exactly    *)
(* the bracket of the n-th frame received, nothing is left in the writer's *)
(* buffer, and each receive sends exactly one unit.                        *)
(***************************************************************************)
C23_OneBracketedFramePerUnit ==
    /\ [](sink_pc = "loop" =>
             /\ buffer = <<>>
             /\ Len(session_data) = Len(sink_seen) + 1
             /\ \A i \in 1 .. Len(sink_seen) :
                  session_data[i + 1] = BracketedFrame(sink_seen[i]))
    /\ [][sink_seen' # sink_seen =>
             /\ Len(session_data') = Len(session_data) + 1
             /\ Last(session_data') = BracketedFrame(Head(completed_frames))
             /\ \A i \in 1 .. Len(session_data) :
                  session_data'[i] = session_data[i]]_vars

\* Two frames were received: the set-up unit and two bracketed frames were
\* sent, in the order of reception.
C23_Witness ==
    /\ sink_pc = "loop"
    /\ Len(sink_seen) = 2
    /\ session_data = <<SinkSetup(<<>>), BracketedFrame(sink_seen[1]),
                        BracketedFrame(sink_seen[2])>>
    /\ buffer = <<>>

(***************************************************************************)
(* The input path of one session with mouse and mode events: the capture   *)
(* stage decodes events and forward_input_to_minecraft translates them,    *)
(* while the client may send its PTY request.                              *)
(***************************************************************************)
\* The column counts of the PTY requests of these behaviours.
InputWidths == {80}

\* The events the capture stage decodes in these behaviours.
InputEvents ==
    {CharEvent("e"), CharEvent(Backtick), KeyEvent("Esc", ""),
     CharEvent("x"), KeyEvent("Enter", ""),
     MouseEvent("Moved", 40, 10), MouseEvent("Moved", 41, 10),
     MouseEvent("Moved", 0, 10), MouseEvent("Down(Left)", 40, 0)}

InputNext ==
    \/ \E ev \in InputEvents : SendEvent(ev)
    \/ DropInputTx
    \/ CaptureInputCtrlC
    \/ \E width \in InputWidths : PtyRequest(width)
    \/ XdoRecvEvent
    \/ XdoTimeout
    \/ XdoDisconnected
    \/ XdoStop

InputSpec == XdoInit /\ [][InputNext]_vars

\* The translator handles the event ev in this step.
Handles(ev) ==
    /\ xdo_pc = "loop" /\ running
    /\ input_rx # <<>> /\ Head(input_rx) = ev
    /\ input_rx' = Tail(input_rx)

\* The event at the head of the channel is handled in this step.
HandlesHead == input_rx # <<>> /\ Handles(Head(input_rx))

\* The commands issued in this step.
Issued == SubSeq(commands', Len(commands) + 1, Len(commands'))

\* The scaled position of the cell of event ev under the current size.
ScaledCell(ev) ==
    scale_mouse_coords(ev.column, ev.row, target_width, target_height)

ModeEvents == {CharEvent("e"), CharEvent(Backtick), KeyEvent("Esc", "")}

(***************************************************************************)
(* C24: a mouse-mode toggle (Char 'e', Char '`') or an Esc leaves          *)
(* last_mouse unchanged; last_mouse changes only in a step that handles a  *)
(* Mouse event, and such a step sets it to the event's scaled position     *)
(* whichever mode is on.                                                   *)
(***************************************************************************)
C24_ToggleKeepsLastMouse ==
    /\ [][\A ev \in ModeEvents :
            Handles(ev) => UNCHANGED <<last_mouse_x, last_mouse_y>>]_vars
    /\ [][<<last_mouse_x, last_mouse_y>>' # <<last_mouse_x, last_mouse_y>>
            => HandlesHead /\ Head(input_rx).type = "Mouse"]_vars
    /\ [][(HandlesHead /\ Head(input_rx).type = "Mouse") =>
            /\ last_mouse_x' = ScaledCell(Head(input_rx)).x
            /\ last_mouse_y' = ScaledCell(Head(input_rx)).y]_vars

\* A Mouse event was handled in Absolute mode at 80x50, then the mode was
\* toggled with 'e': the last position is still that of the event.
C24_Witness ==
    /\ Len(commands) = 2
    /\ commands[1].cmd = "mousemove" /\ commands[1].arg = "320 192"
    /\ commands[2].cmd = "key" /\ commands[2].arg = "e"
    /\ ~inventory_open
    /\ last_mouse_x = 320
    /\ last_mouse_y = 192

\* The relative motion of a Mouse event ev against the last position.
Delta(ev) ==
    calculate_relative_movement(ScaledCell(ev).x, ScaledCell(ev).y,
                                last_mouse_x, last_mouse_y)

IssuesRelative(ev) ==
    /\ Issued # <<>>
    /\ Issued[1].cmd = "mousemove_relative"
    /\ Issued[1].arg = "-- " \o MouseArgs(Delta(ev).dx, Delta(ev).dy)

(***************************************************************************)
(* C25: in Relative mode a Mouse event issues mousemove_relative with      *)
(* delta (game_x - last_x) * 5, (game_y - last_y) * 5 if and only if an    *)
(* earlier Mouse event has been handled in the session and the delta is    *)
(* non-zero, whatever the previous position was, column 0 and row 0        *)
(* included.                                                               *)
(***************************************************************************)
C25_RelativeMotionIffSeenAndMoved ==
    [][(HandlesHead /\ Head(input_rx).type = "Mouse" /\ ~inventory_open) =>
          (IssuesRelative(Head(input_rx)) <=>
             /\ mouse_events > 0
             /\ (Delta(Head(input_rx)).dx # 0 \/ Delta(Head(input_rx)).dy # 0))
      ]_vars

\* The target size is 80 x 50.
Size80x50 == target_width = 80 /\ target_height = 50

(***************************************************************************)
(* C26 as stated: with an 80x50 target size a Mouse event at cell (40, 10) *)
(* in Absolute mode issues 'mousemove 640 288', and a following Mouse      *)
(* event at cell (41, 10) in Relative mode issues                          *)
(* 'mousemove_relative -- 80 0'.                                           *)
(***************************************************************************)
C26_Original ==
    /\ [][(Size80x50 /\ inventory_open /\ Handles(MouseEvent("Moved", 40, 10)))
            => /\ Issued # <<>>
               /\ Issued[1].cmd = "mousemove"
               /\ Issued[1].arg = "640 288"]_vars
    /\ [][(/\ Size80x50 /\ ~inventory_open
           /\ last_mouse_x = ScaledCell(MouseEvent("Moved", 40, 10)).x
           /\ last_mouse_y = ScaledCell(MouseEvent("Moved", 40, 10)).y
           /\ Handles(MouseEvent("Moved", 41, 10)))
            => /\ Issued # <<>>
               /\ Issued[1].cmd = "mousemove_relative"
               /\ Issued[1].arg = "-- 80 0"]_vars

(***************************************************************************)
(* C26 amended: with an 80x50 target size and the configured 640x480 game  *)
(* a Mouse event at cell (40, 10) in Absolute mode issues                  *)
(* 'mousemove 320 192' (game_x = 40 * 640 / 80, game_y = 10 * 480 / 25),   *)
(* and a following Mouse event at cell (41, 10) in Relative mode issues    *)
(* 'mousemove_relative -- 40 0' (per-cell scale 8, gain 5).                *)
(***************************************************************************)
C26_ScaledMouseCommands ==
    /\ [][(Size80x50 /\ inventory_open /\ Handles(MouseEvent("Moved", 40, 10)))
            => /\ Issued = <<[arg |-> "320 192",
                              cmd |-> "mousemove",
                              display |-> XdoDisplay]>>
               /\ last_mouse_x' = (40 * GAME_WIDTH) \div 80
               /\ last_mouse_y' = (10 * GAME_HEIGHT) \div 25]_vars
    /\ [][(/\ Size80x50 /\ ~inventory_open
           /\ last_mouse_x = 320 /\ last_mouse_y = 192
           /\ Handles(MouseEvent("Moved", 41, 10)))
            => Issued = <<[arg |-> "-- 40 0",
                           cmd |-> "mousemove_relative",
                           display |-> XdoDisplay]>>]_vars

\* The scenario has run: absolute motion, the toggle, relative motion.
C26_Witness ==
    /\ Size80x50
    /\ Len(commands) = 3
    /\ commands[1].cmd = "mousemove" /\ commands[1].arg = "320 192"
    /\ commands[2].cmd = "key" /\ commands[2].arg = "e"
    /\ commands[3].cmd = "mousemove_relative" /\ commands[3].arg = "-- 40 0"
    /\ last_mouse_x = 328
    /\ last_mouse_y = 192

MaxEncWidth == 100
MaxEncHeight == 10

\* Byte values of the model: one, two and three decimal digits.
PixelBytes == {0, 10, 255}

\* Frames of the model: a repeating pattern of two bytes.
FramePatterns == [1 .. 2 -> PixelBytes]

\* format!("{}", n).len() for an unsigned n.
DecimalLen(n) ==
    IF n < 10 THEN 1
    ELSE IF n < 100 THEN 2
    ELSE IF n < 1000 THEN 3
    ELSE IF n < 10000 THEN 4
    ELSE 5

\* frame_data[i]
ByteAt(data, i) == data[(i % Len(data)) + 1]

\* format!("\x1b[{};{}H", offset_y + 1, offset_x + 1).len()
CursorHomeLen(offset_x, offset_y) ==
    2 + DecimalLen(offset_y + 1) + 1 + DecimalLen(offset_x + 1) + 1

\* "\x1b[48;2;{};{};{}m".len(), and the same for "\x1b[38;2;...m".
SgrLen(data, pixel_start) ==
    7 + DecimalLen(ByteAt(data, pixel_start)) + 1
      + DecimalLen(ByteAt(data, pixel_start + 1)) + 1
      + DecimalLen(ByteAt(data, pixel_start + 2)) + 1

\* The lower half block, U+2584, in UTF-8.
HalfBlockLen == 3

\* The format! of one cell: background, foreground and the half block.
CellLen(data, width, row_index, column_index) ==
    LET top_pixel_start == ((row_index * width) + column_index) * 3
        bottom_pixel_start == (((row_index + 1) * width) + column_index) * 3
    IN  SgrLen(data, top_pixel_start) + SgrLen(data, bottom_pixel_start)
          + HalfBlockLen

\* for column_index in 0..width
RECURSIVE ColumnsLen(_, _, _, _)
ColumnsLen(data, width, row_index, column_index) ==
    IF column_index >= width THEN 0
    ELSE CellLen(data, width, row_index, column_index)
           + ColumnsLen(data, width, row_index, column_index + 1)

\* format!("\x1b[B\x1b[{}D", width).len()
RowEndLen(width) == 3 + 2 + DecimalLen(width) + 1

\* for row_index in (0..height).step_by(2)
RECURSIVE RowsLen(_, _, _, _)
RowsLen(data, height, width, row_index) ==
    IF row_index >= height THEN 0
    ELSE ColumnsLen(data, width, row_index, 0) + RowEndLen(width)
           + RowsLen(data, height, width, row_index + 2)

\* frame_to_rgb_ansi(frame_data, height, width, 0, 0).len()
frame_to_rgb_ansi(data, height, width) ==
    CursorHomeLen(0, 0) + RowsLen(data, height, width, 0)

\* String::with_capacity(13 + (height / 2) * (width * 41 + 8))
Capacity(height, width) == 13 + (height \div 2) * (width * 41 + 8)

\* "\x1b[m".len()
ResetLen == 3

\* A complete frame of even height has been read.
EncInit ==
    /\ PoolIdle
    /\ XdoIdle
    /\ RenderIdle
    /\ LifeIdle
    /\ GlueIdle
    /\ enc_pc = "frame"
    /\ enc_width \in 1 .. MaxEncWidth
    /\ enc_height \in {h \in 2 .. MaxEncHeight : h % 2 = 0}
    /\ frame_data \in FramePatterns
    /\ output_len = 0

\* let mut output = frame_to_rgb_ansi(&frame_data, height, width, ...)
PaintFrame ==
    /\ enc_pc = "frame"
    /\ output_len' = frame_to_rgb_ansi(frame_data, enc_height, enc_width)
    /\ enc_pc' = "painted"
    /\ UNCHANGED <<poolVars, sessVars, xdoVars, renderVars, lifeVars, glueVars,
                   enc_height, enc_width, frame_data>>

\* output.push_str("\x1b[m")
AppendReset ==
    /\ enc_pc = "painted"
    /\ output_len' = output_len + ResetLen
    /\ enc_pc' = "sent"
    /\ UNCHANGED <<poolVars, sessVars, xdoVars, renderVars, lifeVars, glueVars,
                   enc_height, enc_width, frame_data>>

EncNext == PaintFrame \/ AppendReset

EncSpec == EncInit /\ [][EncNext]_vars

(***************************************************************************)
(* C28: for every frame of width W and even height H and every pixel       *)
(* content, the byte length of the painted frame, with the cursor-home     *)
(* prefix and the trailing reset, is at most 13 + (H/2) * (W*41 + 8): the  *)
(* capacity the output was allocated with is never exceeded.               *)
(***************************************************************************)
C28_PaintedLengthWithinCapacity ==
    enc_pc \in {"painted", "sent"} =>
        output_len <= Capacity(enc_height, enc_width)

\* The stdout of capture child t has reached end of file: the child is
\* gone and render thread t has read everything it wrote.
CaptureEof(t) ==
    /\ rt_pc[t] \in {"loop", "decide", "send"}
    /\ ~child_alive[t]
    /\ pipe[t] = <<>>

(***************************************************************************)
(* C29: a render loop whose capture stream has reached end of file (the    *)
(* child exited or was killed on a resize) terminates; no render thread    *)
(* keeps running on a stream that has ended.                               *)
(***************************************************************************)
C29_RenderLoopEndsOnEof ==
    \A t \in Children : CaptureEof(t) ~> (rt_pc[t] = "done")

(***************************************************************************)
(* C30: in a turn that processes an acquire, the request is granted        *)
(* (its first status is Success) only if the wait set is empty and the     *)
(* free set is non-empty at that turn; in every other case the request is  *)
(* appended at the tail of the wait set and its first status is            *)
(* QueuePosition(n), n being the number of requests in the wait set        *)
(* before it.                                                              *)
(***************************************************************************)
C30_ImmediateGrantOnlyWhenFree ==
    [][RequestStep =>
         LET req == Head(request_rx).id
             grantable == pending_requests = <<>> /\ available_resources # <<>>
         IN
         /\ status[req] = <<>>
         /\ status'[req] # <<>>
         /\ status'[req][1].tag = "Success" => grantable
         /\ ~grantable =>
                /\ pending_requests' = Append(pending_requests, req)
                /\ status'[req][1] = QueuePosition(Len(pending_requests))]_vars

\* The latest turn queued a request behind one earlier waiter, and another
\* request was granted at once by its own turn.
C30_Witness ==
    /\ last_turn.op = "request"
    /\ Len(pending_requests) = 2
    /\ Last(pending_requests) = last_turn.req
    /\ status[last_turn.req][1] = QueuePosition(1)
    /\ \E r \in Requests :
          /\ status[r] # <<>>
          /\ status[r][1].tag = "Success"

(***************************************************************************)
(* C31: at the end of every turn of the pool's event loop, the last status *)
(* sent to each request still in the wait set is QueuePosition(i), i being *)
(* the request's current index in the wait set.  The wait set changes in   *)
(* pool turns only, so this is stated of every state.                      *)
(***************************************************************************)
C31_WaitersToldCurrentIndex ==
    \A i \in 1 .. Len(pending_requests) :
        LET req == pending_requests[i] IN
        /\ status[req] # <<>>
        /\ Last(status[req]) = QueuePosition(i - 1)

\* A release served the front waiter and the waiter behind it moved from
\* index 1 to index 0.
C31_Witness ==
    /\ last_turn.op = "release"
    /\ ~last_turn.wait_empty
    /\ pending_requests # <<>>
    /\ LET req == Head(pending_requests) IN
       /\ \E k \in 1 .. Len(status[req]) : status[req][k] = QueuePosition(1)
       /\ Last(status[req]) = QueuePosition(0)

\* The game child has exited by itself: the session is still running and
\* the monitor has not signalled the game.
GameExitedOnItsOwn == game = "exited" /\ running

(***************************************************************************)
(* C33: if the game child exits on its own while the session is running,   *)
(* the monitor clears the session's running flag, the session tears down   *)
(* (its stage threads end and minecraft::run returns) and its slot is      *)
(* released.                                                               *)
(***************************************************************************)
C33_GameExitEndsSession ==
    GameExitedOnItsOwn ~>
        (~running /\ mon_pc = "done" /\ StageThreadsDone /\ RunReturned
                  /\ SlotReleased)

\* The monitor has seen the exit of the game (try_wait) while the session
\* is running and serving, and is about to clear running.
C33_Witness ==
    /\ GameExitedOnItsOwn
    /\ mon_pc = "shutdown"
    /\ task_pc = "join"
    /\ drv_pc = "loop"
    /\ children >= 1

(***************************************************************************)
(* The start of a session: handle_session_background reading its status    *)
(* stream one status at a time (sshng.rs 147-220), next to the pool and    *)
(* the other sessions.  The observed session is the one of the last        *)
(* request, which can find the pool in any condition.                      *)
(***************************************************************************)
Observed == NumRequests - 1

OtherRequests == Requests \ {Observed}

\* Mutant of DisplayName: the display is named after the slot itself.
DisplayNameOfSlot(resource_id) == resource_id

\* format!(":{}", resource_id+1): n stands for ":n".
DisplayName(resource_id) == resource_id + 1

\* .env("DISPLAY", &display_env) of the game child.
GameDisplay == xorg_display

\* "-i", &display of every capture child.
CaptureDisplay == xorg_display

\* Some(status) = status_rx.recv() and the match on it: Success builds the
\* MinecraftConfig, spawns the task that calls minecraft::run and breaks;
\* QueuePosition is reported to the client; Cancelled and Failed break.
\* Leaving the loop drops status_rx.
SessionStatus ==
    /\ session[Observed] = "waiting"
    /\ statuses_read < Len(status[Observed])
    /\ statuses_read' = statuses_read + 1
    /\ LET s == status[Observed][statuses_read + 1] IN
       IF s.tag = "Success"
       THEN /\ xorg_display' = DisplayName(s.v)
            /\ task_pc' = "launch"
            /\ session' = [session EXCEPT ![Observed] = "running"]
            /\ status_rx_open' = [status_rx_open EXCEPT ![Observed] = FALSE]
       ELSE IF s.tag = "QueuePosition"
       THEN UNCHANGED <<xorg_display, task_pc, session, status_rx_open>>
       ELSE /\ session' = [session EXCEPT ![Observed] = "ended"]
            /\ status_rx_open' = [status_rx_open EXCEPT ![Observed] = FALSE]
            /\ UNCHANGED <<xorg_display, task_pc>>
    /\ UNCHANGED <<resource_count, available_resources, pending_requests,
                   request_rx, release_rx, next_id, cancel, response, status,
                   last_turn, running, xdoVars, renderVars, encVars, game,
                   mon_pc, channel_closed, my_x_session, dropped, allocVars,
                   readerVars>>

StartNext ==
    \/ RequestResource
    \/ \E req \in Requests : Cancel(req)
    \/ RequestArm
    \/ ReleaseArm
    \/ \E req \in Requests : ResponseWatcher(req)
    \/ \E req \in OtherRequests : SessionRecv(req)
    \/ \E req \in OtherRequests : SessionRelease(req)
    \/ SessionStatus
    \/ ClearRunning
    \/ TaskLaunch
    \/ TaskLaunchFails
    \/ \E width \in InputWidths : SetTerminalSize(width)
    \/ DriverRestart

StartSpec == Init /\ [][StartNext]_vars

\* The statuses the observed session has received so far.
StatusesRead == SubSeq(status[Observed], 1, statuses_read)

\* The observed session has received Success(slot).
ReceivedSuccess(slot) ==
    /\ statuses_read >= 1
    /\ Last(StatusesRead) = Success(slot)

\* The observed session has spawned its task or a child process.
SessionStarted == task_pc # "idle" \/ game # "none" \/ children > 0

(***************************************************************************)
(* C32: a session starts its game child and its capture children only      *)
(* after it has received Success(slot); the game is started at most once,  *)
(* by the launch that follows the Success; the game and every capture      *)
(* child are bound to display ":{slot+1}"; the session reads no status     *)
(* after the first terminal one, and after Cancelled or Failed it starts   *)
(* no child process.                                                       *)
(***************************************************************************)
C32_StartOnlyOnSuccess ==
    /\ [](SessionStarted =>
            \E slot \in 0 .. (MaxResourceCount - 1) :
                /\ ReceivedSuccess(slot)
                /\ GameDisplay = slot + 1
                /\ CaptureDisplay = slot + 1)
    /\ [](\A i \in 1 .. (statuses_read - 1) : ~IsTerminal(status[Observed][i]))
    /\ [](session[Observed] = "ended" => ~SessionStarted)
    /\ [][game' # game /\ game' = "alive" =>
            game = "none" /\ task_pc = "launch"]_vars

\* The observed session waited in the queue, was granted slot 1, launched
\* the game and has started a second capture child after a resize.
C32_Witness ==
    /\ ReceivedSuccess(1)
    /\ statuses_read >= 2
    /\ game = "alive"
    /\ children = 2

\* The capture children of the session that are alive.
AliveChildren == {t \in Children : child_alive[t]}

(***************************************************************************)
(* C34: at any time a session has at most one capture child alive, and it  *)
(* is the one the driver holds: on a size change the running child is      *)
(* killed and reaped before the next one is spawned, and once the driver   *)
(* has returned no capture child is alive.                                 *)
(***************************************************************************)
C34_AtMostOneCaptureChild ==
    /\ Cardinality(AliveChildren) <= 1
    /\ AliveChildren \subseteq {current_process}
    /\ drv_pc \in {"done", "failed"} => AliveChildren = {}

\* A resize replaced the first capture child by a second one, and the
\* driver has then returned after killing the second.
C34_Witness ==
    /\ children = 2
    /\ drv_pc = "done"
    /\ current_process = 2
    /\ AliveChildren = {}

\* One run_xdotool(&["key", arg]) invocation was issued in this step, and
\* nothing else.
IssuedKey(arg) ==
    Issued = <<[arg |-> arg, cmd |-> "key", display |-> XdoDisplay]>>

C36_WaitersImplyNoFreeSlot ==
    /\ [](pending_requests # <<>> => available_resources = <<>>)
    /\ [][(RequestStep /\ pending_requests # <<>>) =>
            LET req == Head(request_rx).id IN
            /\ \A i \in 1 .. Len(status'[req]) :
                   status'[req][i].tag # "Success"
            /\ pending_requests' = Append(pending_requests, req)]_vars

\* A release served the front waiter while others kept waiting, and the
\* request processed next was queued behind them.
C36_Witness ==
    /\ last_turn.op = "request"
    /\ last_turn.after_release
    /\ Len(pending_requests) >= 2
    /\ Last(pending_requests) = last_turn.req
    /\ available_resources = <<>>

(***************************************************************************)
(* The whole life of a granted session with the drop of the connection's   *)
(* handler: LifeSpec and the client's connection ending at any moment.     *)
(***************************************************************************)
DropNext == LifeNext \/ ConnectionDrop

DropSpec == LifeInit /\ [][DropNext]_vars

(***************************************************************************)
(* C37: for the slot granted to a session, the session sends release at    *)
(* most once over all of its code paths: the task after minecraft::run     *)
(* returns, cleanup_resources, and Drop of every copy of the session       *)
(* handler.  The pool does not run here, so release_rx holds every release *)
(* the session has sent.                                                   *)
(***************************************************************************)
C37_ReleaseAtMostOnce ==
    /\ Len(release_rx) <= 1
    /\ \A i \in 1 .. Len(release_rx) : release_rx[i] = GrantedResource

\* The task has released the slot and both copies of the handler have been
\* dropped.
C37_Witness ==
    /\ task_pc = "end"
    /\ dropped = Handlers
    /\ release_rx = <<GrantedResource>>

\* The release arm serves the observed session from the wait set in this
\* step: it is sent Success.
GrantedFromWaitSet ==
    /\ ReleaseStep
    /\ Observed \in Elems(pending_requests)
    /\ \E i \in (Len(status[Observed]) + 1) .. Len(status'[Observed]) :
          status'[Observed][i].tag = "Success"

(***************************************************************************)
(* C38: when the client's channel closes while its request is in the wait  *)
(* set, the request is cancelled or removed, so no slot is granted from    *)
(* the wait set to a session whose running flag is already false.          *)
(***************************************************************************)
C38_NoGrantToStoppedSession ==
    [][GrantedFromWaitSet => running]_vars

(***************************************************************************)
(* ResourceAllocator with its cancel sender (queueing.rs 111-167): one     *)
(* allocator, shared by its clones, issuing several requests.              *)
(***************************************************************************)
\* request_resource: takes the next id, spawns the task that will store the
\* cancel sender, sends the request to the pool and returns status_rx.
request_resource ==
    /\ next_id < NumRequests
    /\ next_id' = next_id + 1
    /\ store_pending' = store_pending \cup {next_id}
    /\ request_rx' = Append(request_rx,
                             [id |-> next_id, releases_before |-> ReleasesSent])
    /\ response' = [response EXCEPT ![next_id] = "alive"]
    /\ status_rx_open' = [status_rx_open EXCEPT ![next_id] = TRUE]
    /\ session' = [session EXCEPT ![next_id] = "waiting"]
    /\ UNCHANGED <<resource_count, available_resources, pending_requests,
                   release_rx, cancel, status, last_turn, sessVars, xdoVars,
                   renderVars, lifeVars, encVars, statuses_read, my_x_session,
                   dropped, cancel_tx, cancel_called, readerVars>>

\* The spawned task: `*guard = Some(cancel_sender)`.  The sender stored
\* before is dropped.
StoreCancelSender(req) ==
    /\ req \in store_pending
    /\ store_pending' = store_pending \ {req}
    /\ cancel_tx' = {req}
    /\ UNCHANGED <<poolVars, sessVars, xdoVars, renderVars, lifeVars, encVars,
                   statuses_read, my_x_session, dropped, cancel_called,
                   readerVars>>

\* cancel(), called by the holder of request req after request_resource
\* returned it: `if let Some(cancel_sender) = guard.take()
\* { cancel_sender.send(()) }`.
AllocatorCancel(req) ==
    /\ req < next_id
    /\ req \notin cancel_called
    /\ cancel_called' = cancel_called \cup {req}
    /\ cancel_tx' = {}
    /\ cancel' = [r \in Requests |-> cancel[r] \/ r \in cancel_tx]
    /\ UNCHANGED <<resource_count, available_resources, pending_requests,
                   request_rx, release_rx, next_id, response, status,
                   status_rx_open, session, last_turn, sessVars, xdoVars,
                   renderVars, lifeVars, encVars, statuses_read, my_x_session,
                   dropped, store_pending, readerVars>>

CancelNext ==
    \/ request_resource
    \/ \E req \in Requests : StoreCancelSender(req)
    \/ \E req \in Requests : AllocatorCancel(req)

CancelSpec == Init /\ [][CancelNext]_vars

(***************************************************************************)
(* C39: a cancel() call made after request_resource() has returned fires   *)
(* the cancel signal of that very request, whenever the spawned storing    *)
(* task runs and however many requests the allocator and its clones have   *)
(* issued.                                                                 *)
(***************************************************************************)
C39_CancelFiresOwnRequest ==
    \A req \in cancel_called : cancel[req]

(***************************************************************************)
(* The inbound bytes of a client: Handler::data sends each SSH data        *)
(* message as one Vec<u8> into input_channel, SessionReader::read takes    *)
(* one chunk per call (sshng.rs 303-313, 372-390).                         *)
(***************************************************************************)
\* Longest data message, longest buffer passed to read, and number of
\* bytes a client sends in the model.
MaxChunkLen == 3
MaxBufLen == 3
MaxBytes == 6

\* The bytes first .. last, in order.
RECURSIVE Bytes(_, _)
Bytes(first, last) ==
    IF first > last THEN <<>> ELSE <<first>> \o Bytes(first + 1, last)

Min(a, b) == IF a < b THEN a ELSE b

\* Handler::data: self.input_channel_tx.send(data.to_owned()), data being
\* the next len bytes of the client.
HandlerData(len) ==
    /\ bytes_enqueued + len <= MaxBytes
    /\ input_channel' = Append(input_channel,
                               Bytes(bytes_enqueued + 1, bytes_enqueued + len))
    /\ bytes_enqueued' = bytes_enqueued + len
    /\ UNCHANGED <<poolVars, sessVars, xdoVars, renderVars, lifeVars, encVars,
                   statuses_read, my_x_session, dropped, allocVars,
                   bytes_returned>>

\* buf[..to_copy].copy_from_slice(&data[..to_copy]); Ok(to_copy)
ReadCopied(data, buf_len) == SubSeq(data, 1, Min(buf_len, Len(data)))

\* SessionReader::read(buf) with buf.len() = buf_len, the Ok(data) arm of
\* try_recv: the chunk is taken off the channel and dropped after the copy.
ReaderRead(buf_len) ==
    /\ input_channel # <<>>
    /\ input_channel' = Tail(input_channel)
    /\ bytes_returned' = bytes_returned \o ReadCopied(Head(input_channel), buf_len)
    /\ UNCHANGED <<poolVars, sessVars, xdoVars, renderVars, lifeVars, encVars,
                   statuses_read, my_x_session, dropped, allocVars,
                   bytes_enqueued>>

\* The Empty arm of try_recv: Err(WouldBlock), nothing is returned.
ReaderWouldBlock ==
    /\ input_channel = <<>>
    /\ UNCHANGED vars

ReaderNext ==
    \/ \E len \in 1 .. MaxChunkLen : HandlerData(len)
    \/ \E buf_len \in 1 .. MaxBufLen : ReaderRead(buf_len)
    \/ ReaderWouldBlock

ReaderSpec == Init /\ [][ReaderNext]_vars

(***************************************************************************)
(* C40: every byte Handler::data enqueues is returned by the reader        *)
(* exactly once and in FIFO order, for every chunk length and every buffer *)
(* length: what has been returned is always the first bytes enqueued, and  *)
(* once the queue is empty it is all of them.                              *)
(***************************************************************************)
C40_EveryByteReturnedInOrder ==
    /\ bytes_returned = Bytes(1, Len(bytes_returned))
    /\ input_channel = <<>> => Len(bytes_returned) = bytes_enqueued
====
